---------------------------- MODULE Spec2Model ----------------------------
(***************************************************************************)
(* Code Guardian: the per-file rule sets (security, performance,           *)
(* maintainability, AI-pattern) and the orchestrator CodeAnalyzer that     *)
(* discovers files, analyzes them one by one and aggregates the findings   *)
(* into one AnalysisResults.                                               *)
(*                                                                         *)
(* Source text is represented by a vocabulary of concrete statements.      *)
(* For every statement the tables below record the lines of its text, the  *)
(* value of each regular expression of the rule sets on each line, and the *)
(* syntax tree ast.parse builds for it (restricted to the node kinds some  *)
(* visitor has a handler for; the children of any other node are spliced   *)
(* into its parent, which is what NodeVisitor.generic_visit does).         *)
(* Scores are Python floats in the source; here they are exact rationals.  *)
(***************************************************************************)
EXTENDS Integers, Sequences, FiniteSets, TLC

\* ------------------------------------------------------------------------
\* Bounds of the model
\* ------------------------------------------------------------------------

\* longest `paths` argument given to analyze_paths
MaxPaths == 2

\* longest content (in statements) given to scan_file when it is checked alone
MaxStmts == 2

\* ------------------------------------------------------------------------
\* Exact rational arithmetic for the float scores: <<n, d>> with d > 0
\* ------------------------------------------------------------------------

\* The operands of an operator are bound to their values by a quantifier
\* over a one-element set, so that each is evaluated once however often the
\* body uses it.
RECURSIVE Gcd(_, _)
Gcd(a, b) ==
    IF b = 0 THEN a
    ELSE CHOOSE g \in {Gcd(c, r) : c \in {b}, r \in {a % b}} : TRUE

Abs(a) == IF a < 0 THEN -a ELSE a

Rat(n, d) ==
    LET g == Gcd(Abs(n), d)
    IN  IF n = 0 THEN <<0, 1>> ELSE <<n \div g, d \div g>>

RInt(n) == <<n, 1>>
RAdd(x, y) ==
    CHOOSE r \in {Rat(a[1] * b[2] + b[1] * a[2], a[2] * b[2]) : a \in {x}, b \in {y}} : TRUE
RSub(x, y) ==
    CHOOSE r \in {Rat(a[1] * b[2] - b[1] * a[2], a[2] * b[2]) : a \in {x}, b \in {y}} : TRUE
RMul(x, y) ==
    CHOOSE r \in {Rat(a[1] * b[1], a[2] * b[2]) : a \in {x}, b \in {y}} : TRUE
RDivInt(x, k) ==
    CHOOSE r \in {Rat(a[1], a[2] * n) : a \in {x}, n \in {k}} : TRUE
RLe(x, y) == \E a \in {x}, b \in {y} : a[1] * b[2] <= b[1] * a[2]
RLt(x, y) == \E a \in {x}, b \in {y} : a[1] * b[2] < b[1] * a[2]
RMin(x, y) == CHOOSE r \in {IF RLe(a, b) THEN a ELSE b : a \in {x}, b \in {y}} : TRUE
RMax(x, y) == CHOOSE r \in {IF RLe(a, b) THEN b ELSE a : a \in {x}, b \in {y}} : TRUE

RECURSIVE RSum(_)
RSum(seq) == IF seq = << >> THEN RInt(0) ELSE RAdd(Head(seq), RSum(Tail(seq)))

\* ------------------------------------------------------------------------
\* Sequence helpers
\* ------------------------------------------------------------------------

RECURSIVE SelectSeqBy(_, _)
SelectSeqBy(seq, keep) ==
    IF seq = << >> THEN << >>
    ELSE (IF Head(seq) \in keep THEN <<Head(seq)>> ELSE << >>) \o SelectSeqBy(Tail(seq), keep)

RECURSIVE Flatten(_)
Flatten(seqs) == IF seqs = << >> THEN << >> ELSE Head(seqs) \o Flatten(Tail(seqs))

Range(seq) == {seq[i] : i \in DOMAIN seq}

\* ------------------------------------------------------------------------
\* models.py
\* ------------------------------------------------------------------------

Severities == {"low", "medium", "high", "critical"}
Categories == {"security", "performance", "maintainability", "analysis"}

\* dataclass Issue (column, confidence, source_snippet and suggestion are
\* functions of the other fields and of the line; they are not carried)
Issue(severity, category, message, file_path, line_number, rule_id) ==
    [severity |-> severity, category |-> category, message |-> message,
     file_path |-> file_path, line_number |-> line_number, rule_id |-> rule_id]

CountSeverity(issues, sev) == Cardinality({i \in DOMAIN issues : issues[i].severity = sev})

\* ------------------------------------------------------------------------
\* The statement vocabulary: text, syntax tree, regular-expression values
\* ------------------------------------------------------------------------

Node(kind, lineno, info, children) ==
    [kind |-> kind, lineno |-> lineno, info |-> info, children |-> children]

StmtNames ==
    {"secret_assign", "eval_call", "sql_concat", "pickle_import", "os_system", "list_concat", "magic_number", "broken_def", "process_fn", "ai_comment", "inner_html", "inner_html_add", "password", "typing_import", "sk_test_key", "literal20", "literal21", "bool_fn", "with_fn", "deep_for", "deep_while", "deep_expr"}

StmtLines(s) ==
    CASE s = "secret_assign" -> <<"api_key = \"abcdef1234567890abcdef\"">>
      [] s = "eval_call" -> <<"result = eval(user_input)">>
      [] s = "sql_concat" -> <<"query = \"SELECT * FROM users WHERE id = \" + user_id">>
      [] s = "pickle_import" -> <<"import pickle">>
      [] s = "os_system" -> <<"os.system(\"rm \" + path)">>
      [] s = "list_concat" -> <<"total += [len(items)]">>
      [] s = "magic_number" -> <<"limit = 3600">>
      [] s = "broken_def" -> <<"def broken(:">>
      [] s = "process_fn" -> <<"def process_items(items):", "    for i in range(len(items)):", "        out.append(items[i])">>
      [] s = "ai_comment" -> <<"# This is a helper">>
      [] s = "inner_html" -> <<"el.innerHTML = \"<b>\" + name">>
      [] s = "inner_html_add" -> <<"el.innerHTML += html">>
      [] s = "password" -> <<"password = \"hunter2hunter2\"">>
      [] s = "typing_import" -> <<"from typing import List, Dict, Any">>
      [] s = "sk_test_key" -> <<"api_key = \"sk_test_1234567890abcdef\"">>
      [] s = "literal20" -> <<"digest = \"abcdefghij0123456789\"">>
      [] s = "literal21" -> <<"digest = \"abcdefghij0123456789a\"">>
      [] s = "bool_fn" -> <<"def check(a, b):", "    if a and b:", "        return a">>
      [] s = "with_fn" -> <<"def load(p):", "    with open(p) as f:", "        try:", "            return f.read()", "        except OSError:", "            return None">>
      [] s = "deep_for" -> <<"def scan(rows):", "    for r in rows:", "        for c in r:", "            for v in c:", "                emit(v)">>
      [] s = "deep_while" -> <<"def drain(rows):", "    for r in rows:", "        for c in r:", "            while c:", "                c.pop()">>
      [] s = "deep_expr" -> <<"n = 1 + 1 + ... + 1    (3000 terms)">>

StmtParse(s) ==
    CASE s = "secret_assign" -> [error |-> "none", body |-> <<
              Node("Name", 1, [id |-> "api_key", len |-> 7, caps |-> FALSE, isupper |-> FALSE, underscore |-> TRUE], << >>),
              Node("Str", 1, [len |-> 22, charset |-> TRUE], << >>) >>]
      [] s = "eval_call" -> [error |-> "none", body |-> <<
              Node("Name", 1, [id |-> "result", len |-> 6, caps |-> FALSE, isupper |-> FALSE, underscore |-> FALSE], << >>),
              Node("Call", 1, [func |-> "Name", id |-> "eval", value |-> ""], << >>) >>]
      [] s = "sql_concat" -> [error |-> "none", body |-> <<
              Node("Name", 1, [id |-> "query", len |-> 5, caps |-> FALSE, isupper |-> FALSE, underscore |-> FALSE], << >>),
                Node("Str", 1, [len |-> 31, charset |-> FALSE], << >>) >>]
      [] s = "pickle_import" -> [error |-> "none", body |-> <<
            Node("Import", 1, [names |-> <<"pickle">>], << >>) >>]
      [] s = "os_system" -> [error |-> "none", body |-> <<
              Node("Call", 1, [func |-> "Attribute", id |-> "system", value |-> "os"], <<
                  Node("Str", 1, [len |-> 3, charset |-> FALSE], << >>) >>) >>]
      [] s = "list_concat" -> [error |-> "none", body |-> <<
              Node("Name", 1, [id |-> "total", len |-> 5, caps |-> FALSE, isupper |-> FALSE, underscore |-> FALSE], << >>),
                Node("Call", 1, [func |-> "Name", id |-> "len", value |-> ""], << >>) >>]
      [] s = "magic_number" -> [error |-> "none", body |-> <<
              Node("Name", 1, [id |-> "limit", len |-> 5, caps |-> FALSE, isupper |-> FALSE, underscore |-> FALSE], << >>) >>]
      [] s = "broken_def" -> [error |-> "SyntaxError", body |-> << >>]
      [] s = "process_fn" -> [error |-> "none", body |-> <<
            Node("FunctionDef", 1, [name |-> "process_items", end_lineno |-> 3, nargs |-> 1, docstring |-> FALSE, snake |-> TRUE, dunder |-> FALSE, private |-> FALSE], <<
              Node("For", 2, [iter |-> "Call", func |-> "range", nargs |-> 1, arg0 |-> "Call", arg0func |-> "len"], <<
                Node("Name", 2, [id |-> "i", len |-> 1, caps |-> FALSE, isupper |-> FALSE, underscore |-> FALSE], << >>),
                Node("Call", 2, [func |-> "Name", id |-> "range", value |-> ""], <<
                  Node("Call", 2, [func |-> "Name", id |-> "len", value |-> ""], << >>) >>),
                  Node("Call", 3, [func |-> "Attribute", id |-> "append", value |-> "out"], << >>) >>) >>) >>]
      [] s = "ai_comment" -> [error |-> "none", body |-> << >>]
      [] s = "inner_html" -> [error |-> "none", body |-> <<
                Node("Str", 1, [len |-> 3, charset |-> FALSE], << >>) >>]
      [] s = "inner_html_add" -> [error |-> "none", body |-> << >>]
      [] s = "password" -> [error |-> "none", body |-> <<
              Node("Name", 1, [id |-> "password", len |-> 8, caps |-> FALSE, isupper |-> FALSE, underscore |-> FALSE], << >>),
              Node("Str", 1, [len |-> 14, charset |-> TRUE], << >>) >>]
      [] s = "typing_import" -> [error |-> "none", body |-> << >>]
      [] s = "sk_test_key" -> [error |-> "none", body |-> <<
              Node("Name", 1, [id |-> "api_key", len |-> 7, caps |-> FALSE, isupper |-> FALSE, underscore |-> TRUE], << >>),
              Node("Str", 1, [len |-> 24, charset |-> FALSE], << >>) >>]
      [] s = "literal20" -> [error |-> "none", body |-> <<
              Node("Name", 1, [id |-> "digest", len |-> 6, caps |-> FALSE, isupper |-> FALSE, underscore |-> FALSE], << >>),
              Node("Str", 1, [len |-> 20, charset |-> TRUE], << >>) >>]
      [] s = "literal21" -> [error |-> "none", body |-> <<
              Node("Name", 1, [id |-> "digest", len |-> 6, caps |-> FALSE, isupper |-> FALSE, underscore |-> FALSE], << >>),
              Node("Str", 1, [len |-> 21, charset |-> TRUE], << >>) >>]
      [] s = "bool_fn" -> [error |-> "none", body |-> <<
            Node("FunctionDef", 1, [name |-> "check", end_lineno |-> 3, nargs |-> 2, docstring |-> FALSE, snake |-> TRUE, dunder |-> FALSE, private |-> FALSE], <<
              Node("If", 2, [none |-> TRUE], <<
                Node("BoolOp", 2, [nvalues |-> 2], << >>) >>) >>) >>]
      [] s = "with_fn" -> [error |-> "none", body |-> <<
            Node("FunctionDef", 1, [name |-> "load", end_lineno |-> 6, nargs |-> 1, docstring |-> FALSE, snake |-> TRUE, dunder |-> FALSE, private |-> FALSE], <<
              Node("With", 2, [none |-> TRUE], <<
                  Node("Call", 2, [func |-> "Name", id |-> "open", value |-> ""], << >>),
                  Node("Name", 2, [id |-> "f", len |-> 1, caps |-> FALSE, isupper |-> FALSE, underscore |-> FALSE], << >>),
                Node("Try", 3, [none |-> TRUE], <<
                    Node("Call", 4, [func |-> "Attribute", id |-> "read", value |-> "f"], << >>) >>) >>) >>) >>]
      [] s = "deep_for" -> [error |-> "none", body |-> <<
            Node("FunctionDef", 1, [name |-> "scan", end_lineno |-> 5, nargs |-> 1, docstring |-> FALSE, snake |-> TRUE, dunder |-> FALSE, private |-> FALSE], <<
              Node("For", 2, [iter |-> "Other", func |-> "", nargs |-> 0, arg0 |-> "Other", arg0func |-> ""], <<
                Node("Name", 2, [id |-> "r", len |-> 1, caps |-> FALSE, isupper |-> FALSE, underscore |-> FALSE], << >>),
                Node("For", 3, [iter |-> "Other", func |-> "", nargs |-> 0, arg0 |-> "Other", arg0func |-> ""], <<
                  Node("Name", 3, [id |-> "c", len |-> 1, caps |-> FALSE, isupper |-> FALSE, underscore |-> FALSE], << >>),
                  Node("For", 4, [iter |-> "Other", func |-> "", nargs |-> 0, arg0 |-> "Other", arg0func |-> ""], <<
                    Node("Name", 4, [id |-> "v", len |-> 1, caps |-> FALSE, isupper |-> FALSE, underscore |-> FALSE], << >>),
                      Node("Call", 5, [func |-> "Name", id |-> "emit", value |-> ""], << >>) >>) >>) >>) >>) >>]
      [] s = "deep_while" -> [error |-> "none", body |-> <<
            Node("FunctionDef", 1, [name |-> "drain", end_lineno |-> 5, nargs |-> 1, docstring |-> FALSE, snake |-> TRUE, dunder |-> FALSE, private |-> FALSE], <<
              Node("For", 2, [iter |-> "Other", func |-> "", nargs |-> 0, arg0 |-> "Other", arg0func |-> ""], <<
                Node("Name", 2, [id |-> "r", len |-> 1, caps |-> FALSE, isupper |-> FALSE, underscore |-> FALSE], << >>),
                Node("For", 3, [iter |-> "Other", func |-> "", nargs |-> 0, arg0 |-> "Other", arg0func |-> ""], <<
                  Node("Name", 3, [id |-> "c", len |-> 1, caps |-> FALSE, isupper |-> FALSE, underscore |-> FALSE], << >>),
                  Node("While", 4, [none |-> TRUE], <<
                      Node("Call", 5, [func |-> "Attribute", id |-> "pop", value |-> "c"], << >>) >>) >>) >>) >>) >>]
      [] s = "deep_expr" -> [error |-> "RecursionError", body |-> << >>]

SecurityReSearch ==
    {<<"Potential SQL injection in WHERE clause", "query = \"SELECT * FROM users WHERE id = \" + user_id">>,
     <<"XSS via innerHTML concatenation", "el.innerHTML = \"<b>\" + name">>,
     <<"XSS via eval with user input", "result = eval(user_input)">>,
     <<"Hardcoded password", "password = \"hunter2hunter2\"">>,
     <<"Hardcoded API key", "api_key = \"abcdef1234567890abcdef\"">>,
     <<"Code injection via eval", "result = eval(user_input)">>,
     <<"Command injection via os.system", "os.system(\"rm \" + path)">>}

PerformanceReSearch ==
    {<<"Inefficient loop - use enumerate() or direct iteration", "    for i in range(len(items)):">>,
     <<"Potential memory inefficiency with list concatenation", "total += [len(items)]">>}

JavaScriptReSearch ==
    {<<"innerHTML concatenation causes reflow", "el.innerHTML += html">>}

AiImportReSearch ==
    {<<"Common typing imports", "from typing import List, Dict, Any">>}

AiCommentReSearch ==
    {<<"AI-style explanatory comment", "# This is a helper">>}

AiStructureReSearch ==
    {<<"AI-style process_ function", "def process_items(items):">>}

AiCodeReSearch ==
    {}

AiNamingReSearch ==
    {<<"Generic \"result\" variable name", "result = eval(user_input)">>}

AiStringReSearch ==
    {}

LineFacts(l) ==
    CASE l = "api_key = \"abcdef1234567890abcdef\"" -> [len |-> 34, has_def |-> FALSE, commas |-> 0, magic |-> FALSE, commented |-> FALSE, todo |-> FALSE, indent |-> 0, has_import |-> FALSE]
      [] l = "result = eval(user_input)" -> [len |-> 25, has_def |-> FALSE, commas |-> 0, magic |-> FALSE, commented |-> FALSE, todo |-> FALSE, indent |-> 0, has_import |-> FALSE]
      [] l = "query = \"SELECT * FROM users WHERE id = \" + user_id" -> [len |-> 51, has_def |-> FALSE, commas |-> 0, magic |-> FALSE, commented |-> FALSE, todo |-> FALSE, indent |-> 0, has_import |-> FALSE]
      [] l = "import pickle" -> [len |-> 13, has_def |-> FALSE, commas |-> 0, magic |-> FALSE, commented |-> FALSE, todo |-> FALSE, indent |-> 0, has_import |-> TRUE]
      [] l = "os.system(\"rm \" + path)" -> [len |-> 23, has_def |-> FALSE, commas |-> 0, magic |-> FALSE, commented |-> FALSE, todo |-> FALSE, indent |-> 0, has_import |-> FALSE]
      [] l = "total += [len(items)]" -> [len |-> 21, has_def |-> FALSE, commas |-> 0, magic |-> FALSE, commented |-> FALSE, todo |-> FALSE, indent |-> 0, has_import |-> FALSE]
      [] l = "limit = 3600" -> [len |-> 12, has_def |-> FALSE, commas |-> 0, magic |-> TRUE, commented |-> FALSE, todo |-> FALSE, indent |-> 0, has_import |-> FALSE]
      [] l = "def broken(:" -> [len |-> 12, has_def |-> TRUE, commas |-> 0, magic |-> FALSE, commented |-> FALSE, todo |-> FALSE, indent |-> 0, has_import |-> FALSE]
      [] l = "def process_items(items):" -> [len |-> 25, has_def |-> TRUE, commas |-> 0, magic |-> FALSE, commented |-> FALSE, todo |-> FALSE, indent |-> 0, has_import |-> FALSE]
      [] l = "    for i in range(len(items)):" -> [len |-> 31, has_def |-> FALSE, commas |-> 0, magic |-> FALSE, commented |-> FALSE, todo |-> FALSE, indent |-> 4, has_import |-> FALSE]
      [] l = "        out.append(items[i])" -> [len |-> 28, has_def |-> FALSE, commas |-> 0, magic |-> FALSE, commented |-> FALSE, todo |-> FALSE, indent |-> 8, has_import |-> FALSE]
      [] l = "# This is a helper" -> [len |-> 18, has_def |-> FALSE, commas |-> 0, magic |-> FALSE, commented |-> FALSE, todo |-> FALSE, indent |-> 0, has_import |-> FALSE]
      [] l = "el.innerHTML = \"<b>\" + name" -> [len |-> 27, has_def |-> FALSE, commas |-> 0, magic |-> FALSE, commented |-> FALSE, todo |-> FALSE, indent |-> 0, has_import |-> FALSE]
      [] l = "el.innerHTML += html" -> [len |-> 20, has_def |-> FALSE, commas |-> 0, magic |-> FALSE, commented |-> FALSE, todo |-> FALSE, indent |-> 0, has_import |-> FALSE]
      [] l = "password = \"hunter2hunter2\"" -> [len |-> 27, has_def |-> FALSE, commas |-> 0, magic |-> FALSE, commented |-> FALSE, todo |-> FALSE, indent |-> 0, has_import |-> FALSE]
      [] l = "from typing import List, Dict, Any" -> [len |-> 34, has_def |-> FALSE, commas |-> 2, magic |-> FALSE, commented |-> FALSE, todo |-> FALSE, indent |-> 0, has_import |-> TRUE]
      [] l = "api_key = \"sk_test_1234567890abcdef\"" -> [len |-> 36, has_def |-> FALSE, commas |-> 0, magic |-> FALSE, commented |-> FALSE, todo |-> FALSE, indent |-> 0, has_import |-> FALSE]
      [] l = "digest = \"abcdefghij0123456789\"" -> [len |-> 31, has_def |-> FALSE, commas |-> 0, magic |-> FALSE, commented |-> FALSE, todo |-> FALSE, indent |-> 0, has_import |-> FALSE]
      [] l = "digest = \"abcdefghij0123456789a\"" -> [len |-> 32, has_def |-> FALSE, commas |-> 0, magic |-> FALSE, commented |-> FALSE, todo |-> FALSE, indent |-> 0, has_import |-> FALSE]
      [] l = "def check(a, b):" -> [len |-> 16, has_def |-> TRUE, commas |-> 1, magic |-> FALSE, commented |-> FALSE, todo |-> FALSE, indent |-> 0, has_import |-> FALSE]
      [] l = "    if a and b:" -> [len |-> 15, has_def |-> FALSE, commas |-> 0, magic |-> FALSE, commented |-> FALSE, todo |-> FALSE, indent |-> 4, has_import |-> FALSE]
      [] l = "        return a" -> [len |-> 16, has_def |-> FALSE, commas |-> 0, magic |-> FALSE, commented |-> FALSE, todo |-> FALSE, indent |-> 8, has_import |-> FALSE]
      [] l = "def load(p):" -> [len |-> 12, has_def |-> TRUE, commas |-> 0, magic |-> FALSE, commented |-> FALSE, todo |-> FALSE, indent |-> 0, has_import |-> FALSE]
      [] l = "    with open(p) as f:" -> [len |-> 22, has_def |-> FALSE, commas |-> 0, magic |-> FALSE, commented |-> FALSE, todo |-> FALSE, indent |-> 4, has_import |-> FALSE]
      [] l = "        try:" -> [len |-> 12, has_def |-> FALSE, commas |-> 0, magic |-> FALSE, commented |-> FALSE, todo |-> FALSE, indent |-> 8, has_import |-> FALSE]
      [] l = "            return f.read()" -> [len |-> 27, has_def |-> FALSE, commas |-> 0, magic |-> FALSE, commented |-> FALSE, todo |-> FALSE, indent |-> 12, has_import |-> FALSE]
      [] l = "        except OSError:" -> [len |-> 23, has_def |-> FALSE, commas |-> 0, magic |-> FALSE, commented |-> FALSE, todo |-> FALSE, indent |-> 8, has_import |-> FALSE]
      [] l = "            return None" -> [len |-> 23, has_def |-> FALSE, commas |-> 0, magic |-> FALSE, commented |-> FALSE, todo |-> FALSE, indent |-> 12, has_import |-> FALSE]
      [] l = "def scan(rows):" -> [len |-> 15, has_def |-> TRUE, commas |-> 0, magic |-> FALSE, commented |-> FALSE, todo |-> FALSE, indent |-> 0, has_import |-> FALSE]
      [] l = "    for r in rows:" -> [len |-> 18, has_def |-> FALSE, commas |-> 0, magic |-> FALSE, commented |-> FALSE, todo |-> FALSE, indent |-> 4, has_import |-> FALSE]
      [] l = "        for c in r:" -> [len |-> 19, has_def |-> FALSE, commas |-> 0, magic |-> FALSE, commented |-> FALSE, todo |-> FALSE, indent |-> 8, has_import |-> FALSE]
      [] l = "            for v in c:" -> [len |-> 23, has_def |-> FALSE, commas |-> 0, magic |-> FALSE, commented |-> FALSE, todo |-> FALSE, indent |-> 12, has_import |-> FALSE]
      [] l = "                emit(v)" -> [len |-> 23, has_def |-> FALSE, commas |-> 0, magic |-> FALSE, commented |-> FALSE, todo |-> FALSE, indent |-> 16, has_import |-> FALSE]
      [] l = "def drain(rows):" -> [len |-> 16, has_def |-> TRUE, commas |-> 0, magic |-> FALSE, commented |-> FALSE, todo |-> FALSE, indent |-> 0, has_import |-> FALSE]
      [] l = "            while c:" -> [len |-> 20, has_def |-> FALSE, commas |-> 0, magic |-> FALSE, commented |-> FALSE, todo |-> FALSE, indent |-> 12, has_import |-> FALSE]
      [] l = "                c.pop()" -> [len |-> 23, has_def |-> FALSE, commas |-> 0, magic |-> FALSE, commented |-> FALSE, todo |-> FALSE, indent |-> 16, has_import |-> FALSE]
      [] l = "n = 1 + 1 + ... + 1    (3000 terms)" -> [len |-> 12001, has_def |-> FALSE, commas |-> 0, magic |-> FALSE, commented |-> FALSE, todo |-> FALSE, indent |-> 0, has_import |-> FALSE]


\* ------------------------------------------------------------------------
\* File content: a sequence of statements of the vocabulary
\* ------------------------------------------------------------------------

\* content.splitlines()
SplitLines(content) == Flatten([i \in DOMAIN content |-> StmtLines(content[i])])

\* number of lines before statement i of the content
RECURSIVE StmtOffset(_, _)
StmtOffset(content, i) ==
    IF i = 1 THEN 0 ELSE StmtOffset(content, i - 1) + Len(StmtLines(content[i - 1]))

RECURSIVE Relocate(_, _)
Relocate(nodes, off) ==
    [i \in DOMAIN nodes |->
        Node(nodes[i].kind, nodes[i].lineno + off,
             IF nodes[i].kind = "FunctionDef"
             THEN [nodes[i].info EXCEPT !.end_lineno = @ + off]
             ELSE nodes[i].info,
             Relocate(nodes[i].children, off))]

\* ast.parse(content): the exception it raises ("none" when it succeeds) and
\* the body of the Module it returns.  The parser rejects a syntax error
\* anywhere in the text before it builds any node, so SyntaxError wins over
\* the RecursionError of the tree construction.
AstParse(content) ==
    LET errors == {StmtParse(content[i]).error : i \in DOMAIN content} \ {"none"}
    IN  IF errors # {}
        THEN [error |-> IF "SyntaxError" \in errors THEN "SyntaxError"
                        ELSE CHOOSE e \in errors : TRUE,
              body |-> << >>]
        ELSE [error |-> "none",
              body |-> Flatten([i \in DOMAIN content |->
                          Relocate(StmtParse(content[i]).body, StmtOffset(content, i))])]

\* ------------------------------------------------------------------------
\* config.py: a Config is represented by the value Config.get returns for
\* every key the analyzers read (the default when the key is absent)
\* ------------------------------------------------------------------------

DefaultExclude ==
    <<"*.pyc", "__pycache__/", ".git/", "node_modules/", "venv/", ".env", "*.min.js", "*.min.css">>

\* Config._get_default_config, read through Config.get
DefaultConfig ==
    [security |-> [enabled |-> TRUE,
                   check_sql_injection |-> TRUE,
                   check_xss |-> TRUE,
                   check_hardcoded_secrets |-> TRUE,
                   check_unsafe_deserialization |-> TRUE,
                   check_ai_vulnerabilities |-> TRUE],
     performance |-> [enabled |-> TRUE, max_complexity |-> 10],
     maintainability |-> [enabled |-> TRUE, max_complexity |-> 10,
                          max_function_length |-> 50, max_class_methods |-> 20],
     ai_detection |-> [enabled |-> TRUE,
                      confidence_threshold |-> [number |-> TRUE, value |-> <<7, 10>>]],
     exclude |-> DefaultExclude]

\* ------------------------------------------------------------------------
\* scanner.py: SecurityScanner
\* ------------------------------------------------------------------------

\* Patterns are named by their description; SecurityReSearch holds the value
\* of re.search(pattern, line, re.IGNORECASE) on the lines of the vocabulary.
sql_injection_patterns ==
    <<"SQL injection via string formatting",
      "SQL injection via f-string",
      "SQL injection via string concatenation",
      "Potential SQL injection in WHERE clause">>

xss_patterns ==
    <<"XSS via innerHTML concatenation",
      "XSS via document.write concatenation",
      "XSS via eval with user input",
      "XSS via template literal in script tag">>

secret_patterns ==
    <<"Hardcoded password",
      "Hardcoded API key",
      "Hardcoded secret key",
      "Hardcoded token",
      "AWS access key">>

deserialization_patterns ==
    <<"Unsafe pickle deserialization",
      "Unsafe YAML deserialization",
      "Potentially unsafe JSON deserialization",
      "Code injection via eval",
      "Code injection via exec">>

ai_specific_patterns ==
    <<"Unsafe model loading from user input",
      "Unsafe PyTorch model loading",
      "Unsafe joblib loading from user input",
      "Command injection via subprocess",
      "Command injection via os.system">>

all_patterns ==
    <<[category |-> "sql_injection", patterns |-> sql_injection_patterns, default_severity |-> "high"],
      [category |-> "xss", patterns |-> xss_patterns, default_severity |-> "high"],
      [category |-> "secrets", patterns |-> secret_patterns, default_severity |-> "critical"],
      [category |-> "deserialization", patterns |-> deserialization_patterns, default_severity |-> "critical"],
      [category |-> "ai_specific", patterns |-> ai_specific_patterns, default_severity |-> "high"]>>

SecurityCategories == {all_patterns[i].category : i \in DOMAIN all_patterns}

SecurityRuleId(category) ==
    CASE category = "sql_injection" -> "security.sql_injection"
      [] category = "xss" -> "security.xss"
      [] category = "secrets" -> "security.secrets"
      [] category = "deserialization" -> "security.deserialization"
      [] category = "ai_specific" -> "security.ai_specific"

_is_category_enabled(config, category) ==
    CASE category = "sql_injection" -> config.security.check_sql_injection
      [] category = "xss" -> config.security.check_xss
      [] category = "secrets" -> config.security.check_hardcoded_secrets
      [] category = "deserialization" -> config.security.check_unsafe_deserialization
      [] category = "ai_specific" -> config.security.check_ai_vulnerabilities

_scan_patterns(file_path, lines, patterns, category, default_severity) ==
    Flatten([line_num \in DOMAIN lines |->
        Flatten([p \in DOMAIN patterns |->
            IF <<patterns[p], lines[line_num]>> \in SecurityReSearch
            THEN <<Issue(default_severity, "security", patterns[p], file_path,
                         line_num, SecurityRuleId(category))>>
            ELSE << >>])])

\* SecurityASTVisitor.visit_Call
SecurityVisitCall(file_path, node) ==
    (IF node.info.func = "Name" /\ node.info.id \in {"eval", "exec"}
     THEN <<Issue("critical", "security",
                  IF node.info.id = "eval" THEN "Dangerous use of eval() function"
                                           ELSE "Dangerous use of exec() function",
                  file_path, node.lineno, "security.dangerous_call")>>
     ELSE << >>)
    \o
    (IF node.info.func = "Attribute" /\ node.info.id = "system" /\ node.info.value = "os"
     THEN <<Issue("high", "security", "Use of os.system() can lead to command injection",
                  file_path, node.lineno, "security.command_injection")>>
     ELSE << >>)

\* SecurityASTVisitor.visit_Import
SecurityVisitImport(file_path, node) ==
    Flatten([a \in DOMAIN node.info.names |->
        IF node.info.names[a] \in {"pickle", "cPickle"}
        THEN <<Issue("medium", "security",
                     "Import of pickle module detected - be careful with untrusted data",
                     file_path, node.lineno, "security.risky_import")>>
        ELSE << >>])

\* SecurityASTVisitor.visit_Str: len(value) > 20 and
\* re.match(r'^[A-Za-z0-9+/=]{20,}$', value)
SecurityVisitStr(file_path, node) ==
    IF node.info.len > 20 /\ (node.info.charset /\ node.info.len >= 20)
    THEN <<Issue("medium", "security", "Potential hardcoded secret detected",
                 file_path, node.lineno, "security.potential_secret")>>
    ELSE << >>

\* SecurityASTVisitor.visit over a list of sibling nodes.  Every handler
\* appends its findings and then calls generic_visit.  visit_Str is reached
\* through NodeVisitor.visit_Constant, which dispatches string constants to
\* it only on the interpreters that still do so (visit_str_dispatch).
RECURSIVE SecurityVisit(_, _, _)
SecurityVisit(file_path, nodes, visit_str_dispatch) ==
    Flatten([i \in DOMAIN nodes |->
        (CASE nodes[i].kind = "Call" -> SecurityVisitCall(file_path, nodes[i])
           [] nodes[i].kind = "Import" -> SecurityVisitImport(file_path, nodes[i])
           [] nodes[i].kind = "Str" /\ visit_str_dispatch -> SecurityVisitStr(file_path, nodes[i])
           [] OTHER -> << >>)
        \o SecurityVisit(file_path, nodes[i].children, visit_str_dispatch)])

_scan_python_ast(file_path, content, visit_str_dispatch) ==
    LET tree == AstParse(content)
    IN  CASE tree.error = "none" -> SecurityVisit(file_path, tree.body, visit_str_dispatch)
          [] tree.error = "SyntaxError" -> << >>
          [] OTHER -> <<Issue("low", "security", "AST analysis failed", file_path, 0,
                              "security.ast_error")>>

\* file_path.endswith('.py') and the like, for the paths of the model
EndsWith(file_path, suffix) ==
    CASE suffix = ".py" -> file_path \in {"a.py", "pkg/b.py", "test.py"}
      [] suffix = ".js" -> file_path \in {"pkg/c.js", "pkg/x.min.js", "test.js"}
      [] OTHER -> FALSE

scan_file(config, file_path, content, visit_str_dispatch) ==
    LET lines == SplitLines(content)
    IN  Flatten([c \in DOMAIN all_patterns |->
            IF _is_category_enabled(config, all_patterns[c].category)
            THEN _scan_patterns(file_path, lines, all_patterns[c].patterns,
                                all_patterns[c].category, all_patterns[c].default_severity)
            ELSE << >>])
        \o
        (IF EndsWith(file_path, ".py")
         THEN _scan_python_ast(file_path, content, visit_str_dispatch)
         ELSE << >>)

\* ------------------------------------------------------------------------
\* performance.py: PerformanceAnalyzer
\* ------------------------------------------------------------------------

\* inefficient_patterns, memory_patterns and io_patterns, in that order;
\* PerformanceReSearch holds re.search(pattern, line, re.IGNORECASE)
performance_patterns ==
    <<[description |-> "Inefficient loop - use enumerate() or direct iteration", severity |-> "medium"],
      [description |-> "Inefficient while loop checking length", severity |-> "medium"],
      [description |-> "List comprehension may be more efficient", severity |-> "low"],
      [description |-> "Nested list comprehension may be more efficient", severity |-> "medium"],
      [description |-> "Potential memory inefficiency with list concatenation", severity |-> "medium"],
      [description |-> "Copying in loop can cause memory issues", severity |-> "high"],
      [description |-> "Inefficient pandas concatenation in loop", severity |-> "high"],
      [description |-> "Inefficient numpy concatenation in loop", severity |-> "medium"],
      [description |-> "Database queries in loop - consider batch operations", severity |-> "high"],
      [description |-> "File operations in loop can be inefficient", severity |-> "medium"],
      [description |-> "HTTP requests in loop without session reuse", severity |-> "high"],
      [description |-> "Sleep in loop may indicate inefficient design", severity |-> "low"]>>

js_patterns ==
    <<[description |-> "DOM queries in loop are inefficient", severity |-> "high"],
      [description |-> "innerHTML concatenation causes reflow", severity |-> "medium"],
      [description |-> "RegExp creation in loop is inefficient", severity |-> "medium"],
      [description |-> "Deep clone via JSON is inefficient", severity |-> "medium"],
      [description |-> "Event listeners in loop without cleanup", severity |-> "high"]>>

\* the loop `for line ...: for pattern ...: if re.search(...)` shared by
\* _analyze_patterns and _analyze_javascript_patterns
PerformanceScanLines(file_path, lines, patterns, table, rule_id) ==
    Flatten([line_num \in DOMAIN lines |->
        Flatten([p \in DOMAIN patterns |->
            IF <<patterns[p].description, lines[line_num]>> \in table
            THEN <<Issue(patterns[p].severity, "performance", patterns[p].description,
                         file_path, line_num, rule_id)>>
            ELSE << >>])])

PerformanceAnalyzePatterns(file_path, content) ==
    PerformanceScanLines(file_path, SplitLines(content), performance_patterns,
                         PerformanceReSearch, "performance.pattern")

_analyze_javascript_patterns(file_path, content) ==
    PerformanceScanLines(file_path, SplitLines(content), js_patterns,
                         JavaScriptReSearch, "performance.javascript")

\* PerformanceASTVisitor.__init__
PerformanceVisitorInit ==
    [issues |-> << >>, function_complexities |-> << >>,
     current_complexity |-> 0, nested_loops |-> 0]

\* the range(len(...)) test of visit_For
IsRangeLen(info) ==
    /\ info.iter = "Call"
    /\ info.func = "range"
    /\ info.nargs = 1
    /\ info.arg0 = "Call"
    /\ info.arg0func = "len"

\* a severity that is high from 1.5 times the threshold on
ComplexitySeverityFromLimit(current_complexity, max_complexity) ==
    IF 2 * current_complexity < 3 * max_complexity THEN "medium" ELSE "high"

\* visit_FunctionDef: 'medium' if self.current_complexity <=
\* self.max_complexity * 1.5 else 'high'
ComplexitySeverity(current_complexity, max_complexity) ==
    IF 2 * current_complexity <= 3 * max_complexity THEN "medium" ELSE "high"

\* PerformanceASTVisitor: visit of a list of sibling nodes (generic_visit of
\* their parent), threading the visitor's fields through the traversal
RECURSIVE PerformanceVisit(_, _, _, _)
PerformanceVisit(file_path, max_complexity, nodes, st) ==
    IF nodes = << >> THEN st
    ELSE
      LET node == Head(nodes)
          Sub(s) == PerformanceVisit(file_path, max_complexity, node.children, s)
          after ==
            CASE node.kind = "FunctionDef" ->
                   LET s1 == Sub([st EXCEPT !.current_complexity = 1])
                       s2 == IF s1.current_complexity > max_complexity
                             THEN [s1 EXCEPT !.issues = Append(@,
                                     Issue(ComplexitySeverity(s1.current_complexity, max_complexity),
                                           "performance", "Function complexity exceeds threshold",
                                           file_path, node.lineno, "performance.complexity"))]
                             ELSE s1
                   IN  [s2 EXCEPT !.function_complexities = Append(@, s1.current_complexity),
                                  !.current_complexity = st.current_complexity]
              [] node.kind = "For" ->
                   LET s1 == [st EXCEPT !.current_complexity = @ + 1, !.nested_loops = @ + 1]
                       s2 == IF s1.nested_loops > 2
                             THEN [s1 EXCEPT !.issues = Append(@,
                                     Issue("medium", "performance",
                                           "Deeply nested loops may cause performance issues",
                                           file_path, node.lineno, "performance.nested_loops"))]
                             ELSE s1
                       s3 == IF IsRangeLen(node.info)
                             THEN [s2 EXCEPT !.issues = Append(@,
                                     Issue("low", "performance",
                                           "Use enumerate() or direct iteration instead of range(len())",
                                           file_path, node.lineno, "performance.range_len"))]
                             ELSE s2
                   IN  [Sub(s3) EXCEPT !.nested_loops = st.nested_loops]
              [] node.kind = "While" ->
                   LET s1 == Sub([st EXCEPT !.current_complexity = @ + 1, !.nested_loops = @ + 1])
                   IN  [s1 EXCEPT !.nested_loops = @ - 1]
              [] node.kind \in {"If", "Try", "With"} ->
                   Sub([st EXCEPT !.current_complexity = @ + 1])
              [] node.kind = "ListComp" ->
                   Sub(IF node.info.nested
                       THEN [st EXCEPT !.issues = Append(@,
                               Issue("medium", "performance",
                                     "Nested list comprehensions can be hard to read and maintain",
                                     file_path, node.lineno, "performance.nested_comprehension"))]
                       ELSE st)
              [] node.kind = "Call" ->
                   Sub(IF node.info.func = "Attribute" /\ node.info.id = "append"
                          /\ st.nested_loops > 0
                       THEN [st EXCEPT !.issues = Append(@,
                               Issue("low", "performance",
                                     "List.append() in nested loop may be inefficient",
                                     file_path, node.lineno, "performance.append_in_loop"))]
                       ELSE st)
              [] OTHER -> Sub(st)
      IN  PerformanceVisit(file_path, max_complexity, Tail(nodes), after)

RECURSIVE SumSeq(_)
SumSeq(seq) == IF seq = << >> THEN 0 ELSE Head(seq) + SumSeq(Tail(seq))

MaxSeq(seq) == CHOOSE m \in Range(seq) : \A x \in Range(seq) : x <= m

\* PerformanceASTVisitor.get_complexity_score
get_complexity_score(function_complexities, max_complexity) ==
    IF function_complexities = << >> THEN RInt(10)
    ELSE
      LET avg_complexity == Rat(SumSeq(function_complexities), Len(function_complexities))
          max_c == MaxSeq(function_complexities)
          pen_avg == RMax(RInt(0), RMul(RSub(avg_complexity, RInt(max_complexity)), <<1, 2>>))
          pen_max == RMax(RInt(0), RMul(RSub(RInt(max_c), Rat(3 * max_complexity, 2)), <<3, 10>>))
      IN  RMax(RInt(0), RSub(RSub(RInt(10), pen_avg), pen_max))

\* PerformanceAnalyzer._analyze_python_ast
PerformanceAnalyzePythonAst(file_path, content, max_complexity) ==
    LET tree == AstParse(content)
        visitor == PerformanceVisit(file_path, max_complexity, tree.body, PerformanceVisitorInit)
    IN  CASE tree.error = "none" ->
               [issues |-> visitor.issues,
                complexity_score |-> get_complexity_score(visitor.function_complexities, max_complexity)]
          [] tree.error = "SyntaxError" ->
               [issues |-> << >>, complexity_score |-> RInt(10)]
          [] OTHER ->
               [issues |-> <<Issue("low", "performance", "AST analysis failed", file_path, 0,
                                   "performance.ast_error")>>,
                complexity_score |-> RInt(10)]

\* PerformanceAnalyzer.analyze_file
analyze_file(config, file_path, content) ==
    LET pattern_issues == PerformanceAnalyzePatterns(file_path, content)
        py == PerformanceAnalyzePythonAst(file_path, content, config.performance.max_complexity)
        issues ==
            pattern_issues \o
            (CASE EndsWith(file_path, ".py") -> py.issues
               [] EndsWith(file_path, ".js") -> _analyze_javascript_patterns(file_path, content)
               [] OTHER -> << >>)
        base == IF EndsWith(file_path, ".py") THEN RMin(RInt(10), py.complexity_score) ELSE RInt(10)
        penalised ==
            RSub(base, RInt(3 * CountSeverity(issues, "critical")
                            + 2 * CountSeverity(issues, "high")
                            + CountSeverity(issues, "medium")))
    IN  [issues |-> issues, performance_score |-> RMax(RInt(0), penalised)]

\* ------------------------------------------------------------------------
\* maintainability.py: MaintainabilityScorer
\* ------------------------------------------------------------------------

MaintIssue(severity, message, file_path, line_number, rule_id) ==
    Issue(severity, "maintainability", message, file_path, line_number, rule_id)

\* MaintainabilityScorer._analyze_patterns; LineFacts holds the values of the
\* tests the loop body makes on a line
MaintainabilityAnalyzePatterns(file_path, content) ==
    LET lines == SplitLines(content)
    IN  Flatten([line_num \in DOMAIN lines |->
          LET f == LineFacts(lines[line_num])
          IN  (IF f.len > 120
               THEN <<MaintIssue("low", "Line too long", file_path, line_num,
                                 "maintainability.line_length")>>
               ELSE << >>)
              \o
              (IF f.has_def /\ f.commas > 5
               THEN <<MaintIssue("medium", "Function has too many parameters", file_path,
                                 line_num, "maintainability.too_many_params")>>
               ELSE << >>)
              \o
              (IF f.magic /\ ~f.has_def /\ ~f.commented
               THEN <<MaintIssue("low", "Magic number detected - consider using named constants",
                                 file_path, line_num, "maintainability.magic_number")>>
               ELSE << >>)
              \o
              (IF f.todo
               THEN <<MaintIssue("low", "TODO/FIXME comment found", file_path, line_num,
                                 "maintainability.todo_comment")>>
               ELSE << >>)
              \o
              (IF f.indent > 24
               THEN <<MaintIssue("medium", "Code is too deeply nested", file_path, line_num,
                                 "maintainability.deep_nesting")>>
               ELSE << >>)])

\* MaintainabilityASTVisitor.__init__ (the name lists are write-only)
MaintainabilityVisitorInit ==
    [issues |-> << >>, function_lengths |-> << >>, function_complexities |-> << >>,
     class_method_counts |-> << >>, current_complexity |-> 0]

AddIssueIf(st, cond, issue) == IF cond THEN [st EXCEPT !.issues = Append(@, issue)] ELSE st

\* MaintainabilityASTVisitor: visit of a list of sibling nodes
RECURSIVE MaintainabilityVisit(_, _, _, _)
MaintainabilityVisit(file_path, limits, nodes, st) ==
    IF nodes = << >> THEN st
    ELSE
      LET node == Head(nodes)
          Sub(s) == MaintainabilityVisit(file_path, limits, node.children, s)
          after ==
            CASE node.kind = "ClassDef" ->
                   LET s1 == AddIssueIf(st, ~node.info.pascal,
                               MaintIssue("low", "Class name doesn't follow PascalCase convention",
                                          file_path, node.lineno, "maintainability.class_naming"))
                       s2 == AddIssueIf(s1, node.info.method_count > limits.max_class_methods,
                               MaintIssue("medium", "Class has too many methods",
                                          file_path, node.lineno, "maintainability.too_many_methods"))
                       s3 == [s2 EXCEPT !.class_method_counts = Append(@, node.info.method_count)]
                       s4 == AddIssueIf(s3, ~node.info.docstring,
                               MaintIssue("low", "Class missing docstring",
                                          file_path, node.lineno, "maintainability.missing_docstring"))
                   IN  Sub(s4)
              [] node.kind = "FunctionDef" ->
                   LET function_length == node.info.end_lineno - node.lineno
                       s1 == AddIssueIf(st, ~node.info.snake /\ ~node.info.dunder,
                               MaintIssue("low", "Function name doesn't follow snake_case convention",
                                          file_path, node.lineno, "maintainability.function_naming"))
                       s2 == AddIssueIf(s1, function_length > limits.max_function_length,
                               MaintIssue("medium", "Function is too long",
                                          file_path, node.lineno, "maintainability.long_function"))
                       s3 == [s2 EXCEPT !.function_lengths = Append(@, function_length)]
                       s4 == AddIssueIf(s3, node.info.nargs > 5,
                               MaintIssue("medium", "Function has too many parameters",
                                          file_path, node.lineno, "maintainability.too_many_params"))
                       s5 == AddIssueIf(s4, function_length > 5 /\ ~node.info.docstring
                                            /\ ~node.info.private,
                               MaintIssue("low", "Function missing docstring",
                                          file_path, node.lineno, "maintainability.missing_docstring"))
                       s6 == Sub([s5 EXCEPT !.current_complexity = 1])
                       s7 == AddIssueIf(s6, s6.current_complexity > limits.max_complexity,
                               MaintIssue("medium", "Function complexity is too high",
                                          file_path, node.lineno, "maintainability.high_complexity"))
                   IN  [s7 EXCEPT !.function_complexities = Append(@, s6.current_complexity),
                                  !.current_complexity = st.current_complexity]
              [] node.kind = "Name" ->
                   \* only Store-context names are kept in the trees
                   LET s1 == AddIssueIf(st, node.info.len = 1
                                            /\ node.info.id \notin {"i", "j", "k", "x", "y", "z"},
                               MaintIssue("low", "Single-letter variable name is not descriptive",
                                          file_path, node.lineno, "maintainability.short_variable_name"))
                       s2 == AddIssueIf(s1, node.info.caps
                                            /\ (~node.info.isupper \/ ~node.info.underscore),
                               MaintIssue("low", "Constant should use UPPER_CASE convention",
                                          file_path, node.lineno, "maintainability.constant_naming"))
                   IN  Sub(s2)
              [] node.kind \in {"If", "For", "While", "Try", "With"} ->
                   Sub([st EXCEPT !.current_complexity = @ + 1])
              [] node.kind = "BoolOp" ->
                   Sub([st EXCEPT !.current_complexity = @ + node.info.nvalues - 1])
              [] OTHER -> Sub(st)
      IN  MaintainabilityVisit(file_path, limits, Tail(nodes), after)

\* MaintainabilityASTVisitor.get_structural_score
get_structural_score(st, limits) ==
    LET Avg(seq) == Rat(SumSeq(seq), Len(seq))
        Penalty(seq, max, weight) ==
            IF seq # << >> /\ RLt(RInt(max), Avg(seq))
            THEN RMul(RSub(Avg(seq), RInt(max)), weight)
            ELSE RInt(0)
        score ==
            RSub(RSub(RSub(RInt(10),
                Penalty(st.function_lengths, limits.max_function_length, <<1, 10>>)),
                Penalty(st.function_complexities, limits.max_complexity, <<1, 5>>)),
                Penalty(st.class_method_counts, limits.max_class_methods, <<1, 10>>))
    IN  RMax(RInt(0), score)

\* _analyze_python_structure leaving structural_score at 10 on a syntax error
AnalyzeStructureKeepsScore(file_path, content, limits) ==
    LET tree == AstParse(content)
        visitor == MaintainabilityVisit(file_path, limits, tree.body, MaintainabilityVisitorInit)
    IN  CASE tree.error = "none" ->
               [issues |-> visitor.issues,
                structural_score |-> get_structural_score(visitor, limits)]
          [] tree.error = "SyntaxError" ->
               [issues |-> <<MaintIssue("high", "Syntax error in file", file_path, 0,
                                        "maintainability.syntax_error")>>,
                structural_score |-> RInt(10)]
          [] OTHER ->
               [issues |-> <<MaintIssue("low", "Structure analysis failed", file_path, 0,
                                        "maintainability.analysis_error")>>,
                structural_score |-> RInt(10)]

\* MaintainabilityScorer._analyze_python_structure
_analyze_python_structure(file_path, content, limits) ==
    LET tree == AstParse(content)
        visitor == MaintainabilityVisit(file_path, limits, tree.body, MaintainabilityVisitorInit)
    IN  CASE tree.error = "none" ->
               [issues |-> visitor.issues,
                structural_score |-> get_structural_score(visitor, limits)]
          [] tree.error = "SyntaxError" ->
               [issues |-> <<MaintIssue("high", "Syntax error in file", file_path, 0,
                                        "maintainability.syntax_error")>>,
                structural_score |-> RInt(5)]
          [] OTHER ->
               [issues |-> <<MaintIssue("low", "Structure analysis failed", file_path, 0,
                                        "maintainability.analysis_error")>>,
                structural_score |-> RInt(10)]

\* score_file with no penalty for low findings
ScoreFileLowIgnored(config, file_path, content) ==
    LET py == _analyze_python_structure(file_path, content, config.maintainability)
        issues ==
            MaintainabilityAnalyzePatterns(file_path, content)
            \o (IF EndsWith(file_path, ".py") THEN py.issues ELSE << >>)
        base_score == IF EndsWith(file_path, ".py") THEN RMin(RInt(10), py.structural_score)
                                                    ELSE RInt(10)
        final_score ==
            RSub(base_score,
                 Rat(4 * CountSeverity(issues, "critical") + 3 * CountSeverity(issues, "high")
                     + 2 * CountSeverity(issues, "medium"), 2))
    IN  [issues |-> issues, maintainability_score |-> RMax(RInt(0), final_score)]

\* score_file returning final_score without the floor at 0
ScoreFileNoFloor(config, file_path, content) ==
    LET py == _analyze_python_structure(file_path, content, config.maintainability)
        issues ==
            MaintainabilityAnalyzePatterns(file_path, content)
            \o (IF EndsWith(file_path, ".py") THEN py.issues ELSE << >>)
        base_score == IF EndsWith(file_path, ".py") THEN RMin(RInt(10), py.structural_score)
                                                    ELSE RInt(10)
        final_score ==
            RSub(base_score,
                 Rat(4 * CountSeverity(issues, "critical") + 3 * CountSeverity(issues, "high")
                     + 2 * CountSeverity(issues, "medium") + CountSeverity(issues, "low"), 2))
    IN  [issues |-> issues, maintainability_score |-> final_score]

\* MaintainabilityScorer.score_file
score_file(config, file_path, content) ==
    LET py == _analyze_python_structure(file_path, content, config.maintainability)
        issues ==
            MaintainabilityAnalyzePatterns(file_path, content)
            \o (IF EndsWith(file_path, ".py") THEN py.issues ELSE << >>)
        base_score == IF EndsWith(file_path, ".py") THEN RMin(RInt(10), py.structural_score)
                                                    ELSE RInt(10)
        final_score ==
            RSub(base_score,
                 Rat(4 * CountSeverity(issues, "critical") + 3 * CountSeverity(issues, "high")
                     + 2 * CountSeverity(issues, "medium") + CountSeverity(issues, "low"), 2))
    IN  [issues |-> issues, maintainability_score |-> RMax(RInt(0), final_score)]

\* ------------------------------------------------------------------------
\* ai_detector.py: AIPatternDetector
\* ------------------------------------------------------------------------

AIPattern(pattern_type, confidence, description, line_number) ==
    [pattern_type |-> pattern_type, confidence |-> confidence,
     description |-> description, line_number |-> line_number]

comment_patterns ==
    <<[confidence |-> <<4, 5>>, description |-> "AI-style explanatory comment"],
      [confidence |-> <<7, 10>>, description |-> "AI-style note comment"],
      [confidence |-> <<7, 10>>, description |-> "AI-style important comment"],
      [confidence |-> <<3, 5>>, description |-> "AI-style example comment"],
      [confidence |-> <<1, 2>>, description |-> "Generic TODO comment"],
      [confidence |-> <<7, 10>>, description |-> "AI-style action comment"],
      [confidence |-> <<4, 5>>, description |-> "AI-style JSDoc comment"]>>

code_patterns ==
    <<[confidence |-> <<3, 5>>, description |-> "Verbose None check"],
      [confidence |-> <<1, 2>>, description |-> "Empty format() call"],
      [confidence |-> <<2, 5>>, description |-> "Debug print statement"],
      [confidence |-> <<7, 10>>, description |-> "Manual path manipulation"],
      [confidence |-> <<3, 5>>, description |-> "Generic exception handling"],
      [confidence |-> <<1, 2>>, description |-> "Generic main function"],
      [confidence |-> <<2, 5>>, description |-> "Standard main guard"]>>

naming_patterns ==
    <<[confidence |-> <<3, 5>>, description |-> "Generic \"data\" variable name"],
      [confidence |-> <<1, 2>>, description |-> "Generic \"result\" variable name"],
      [confidence |-> <<1, 2>>, description |-> "Generic \"value\" variable name"],
      [confidence |-> <<2, 5>>, description |-> "Generic \"item\" variable name"],
      [confidence |-> <<3, 5>>, description |-> "Generic \"temp\" variable name"],
      [confidence |-> <<7, 10>>, description |-> "AI-style \"my_\" prefixed variables"]>>

structure_patterns ==
    <<[confidence |-> <<9, 10>>, description |-> "Generic \"MyClass\" class name"],
      [confidence |-> <<9, 10>>, description |-> "Generic \"my_function\" function name"],
      [confidence |-> <<3, 5>>, description |-> "AI-style calculate_ function"],
      [confidence |-> <<3, 5>>, description |-> "AI-style process_ function"],
      [confidence |-> <<3, 5>>, description |-> "AI-style handle_ function"]>>

import_patterns ==
    <<[confidence |-> <<7, 10>>, description |-> "Common AI import sequence"],
      [confidence |-> <<3, 5>>, description |-> "Common typing imports"],
      [confidence |-> <<1, 2>>, description |-> "Short alias imports"]>>

string_patterns ==
    <<[confidence |-> <<4, 5>>, description |-> "Hello World string"],
      [confidence |-> <<7, 10>>, description |-> "Test string"],
      [confidence |-> <<3, 5>>, description |-> "Input prompt string"],
      [confidence |-> <<3, 5>>, description |-> "Processing message"]>>

\* the loop `for line ...: for pattern ...` of the _detect_* methods
AiScanLine(line, line_num, patterns, table, pattern_type) ==
    Flatten([p \in DOMAIN patterns |->
        IF <<patterns[p].description, line>> \in table
        THEN <<AIPattern(pattern_type, patterns[p].confidence, patterns[p].description, line_num)>>
        ELSE << >>])

_detect_comment_patterns(lines) ==
    Flatten([n \in DOMAIN lines |->
        AiScanLine(lines[n], n, comment_patterns, AiCommentReSearch, "comment")])

_detect_code_patterns(lines) ==
    Flatten([n \in DOMAIN lines |->
        AiScanLine(lines[n], n, structure_patterns, AiStructureReSearch, "structure")
        \o AiScanLine(lines[n], n, code_patterns, AiCodeReSearch, "code")])

_detect_naming_patterns(lines) ==
    Flatten([n \in DOMAIN lines |->
        AiScanLine(lines[n], n, naming_patterns, AiNamingReSearch, "naming")])

\* re.search(pattern, content, re.MULTILINE) of an import pattern: within the
\* vocabulary a match never spans two lines, so the content matches when one
\* of its lines does; the pattern is reported at the first line that
\* contains 'import', if there is one
_detect_import_patterns(lines) ==
    LET import_lines == {n \in DOMAIN lines : LineFacts(lines[n]).has_import}
        first == CHOOSE n \in import_lines : \A m \in import_lines : n <= m
    IN  Flatten([p \in DOMAIN import_patterns |->
            IF /\ \E n \in DOMAIN lines : <<import_patterns[p].description, lines[n]>> \in AiImportReSearch
               /\ import_lines # {}
            THEN <<AIPattern("imports", import_patterns[p].confidence,
                             import_patterns[p].description, first)>>
            ELSE << >>])

_detect_string_patterns(lines) ==
    Flatten([n \in DOMAIN lines |->
        AiScanLine(lines[n], n, string_patterns, AiStringReSearch, "strings")])

\* confidence_threshold is [number |-> TRUE, value |-> a rational], or
\* [number |-> FALSE, ...] when the configuration gives something else (text)
IsNumber(x) == x.number

\* detect_ai_patterns taking the plain mean of the weights
DetectAiPlainMean(config, content) ==
    LET lines == SplitLines(content)
        confidence_threshold == config.ai_detection.confidence_threshold
        detected_patterns ==
            _detect_comment_patterns(lines) \o _detect_code_patterns(lines)
            \o _detect_naming_patterns(lines) \o _detect_import_patterns(lines)
            \o _detect_string_patterns(lines)
        confidence_scores == [i \in DOMAIN detected_patterns |-> detected_patterns[i].confidence]
        total_confidence ==
            IF detected_patterns # << >>
            THEN RMin(<<19, 20>>, RDivInt(RSum(confidence_scores), Len(confidence_scores)))
            ELSE RInt(0)
    IN  IF detected_patterns # << >> /\ ~IsNumber(confidence_threshold)
        THEN [raised |-> TRUE, ai_confidence |-> RInt(0), ai_patterns |-> << >>]
        ELSE [raised |-> FALSE,
              ai_confidence |-> total_confidence,
              ai_patterns |-> SelectSeqBy(detected_patterns,
                                {p \in Range(detected_patterns) : RLe(confidence_threshold.value, p.confidence)})]


\* detect_ai_patterns computing the confidence from the patterns it returns
DetectAiFilteredMean(config, content) ==
    LET lines == SplitLines(content)
        confidence_threshold == config.ai_detection.confidence_threshold
        detected_patterns ==
            _detect_comment_patterns(lines) \o _detect_code_patterns(lines)
            \o _detect_naming_patterns(lines) \o _detect_import_patterns(lines)
            \o _detect_string_patterns(lines)
        kept == SelectSeqBy(detected_patterns,
                    {p \in Range(detected_patterns) :
                        IsNumber(confidence_threshold) /\ RLe(confidence_threshold.value, p.confidence)})
        confidence_scores == [i \in DOMAIN kept |-> kept[i].confidence]
        total_confidence ==
            IF kept # << >>
            THEN RMin(<<19, 20>>, RDivInt(RSum(confidence_scores), Len(confidence_scores) + 2))
            ELSE RInt(0)
    IN  IF detected_patterns # << >> /\ ~IsNumber(confidence_threshold)
        THEN [raised |-> TRUE, ai_confidence |-> RInt(0), ai_patterns |-> << >>]
        ELSE [raised |-> FALSE,
              ai_confidence |-> total_confidence,
              ai_patterns |-> SelectSeqBy(detected_patterns,
                                {p \in Range(detected_patterns) : RLe(confidence_threshold.value, p.confidence)})]


\* AIPatternDetector.detect_ai_patterns.  raised: the comparison
\* p.confidence >= self.confidence_threshold raises TypeError when the
\* threshold is not a number and there is a pattern to compare
detect_ai_patterns(config, content) ==
    LET lines == SplitLines(content)
        confidence_threshold == config.ai_detection.confidence_threshold
        detected_patterns ==
            _detect_comment_patterns(lines) \o _detect_code_patterns(lines)
            \o _detect_naming_patterns(lines) \o _detect_import_patterns(lines)
            \o _detect_string_patterns(lines)
        confidence_scores == [i \in DOMAIN detected_patterns |-> detected_patterns[i].confidence]
        total_confidence ==
            IF detected_patterns # << >>
            THEN RMin(<<19, 20>>, RDivInt(RSum(confidence_scores), Len(confidence_scores) + 2))
            ELSE RInt(0)
    IN  IF detected_patterns # << >> /\ ~IsNumber(confidence_threshold)
        THEN [raised |-> TRUE, ai_confidence |-> RInt(0), ai_patterns |-> << >>]
        ELSE [raised |-> FALSE,
              ai_confidence |-> total_confidence,
              ai_patterns |-> SelectSeqBy(detected_patterns,
                                {p \in Range(detected_patterns) : RLe(confidence_threshold.value, p.confidence)})]

\* ------------------------------------------------------------------------
\* The file system the scans run on
\* ------------------------------------------------------------------------

Files == {"a.py", "pkg/b.py", "pkg/c.js", "pkg/notes.txt", "pkg/x.min.js"}
Dirs == {"pkg"}

\* Path.is_dir ("missing" is neither a directory nor a file), Path.name, Path.suffix
IsDir(path) == path \in Dirs

PathName(path) ==
    CASE path = "a.py" -> "a.py"
      [] path = "pkg/b.py" -> "b.py"
      [] path = "pkg/c.js" -> "c.js"
      [] path = "pkg/notes.txt" -> "notes.txt"
      [] path = "pkg/x.min.js" -> "x.min.js"
      [] path = "pkg/test.pyc" -> "test.pyc"
      [] path = "__pycache__/test.py" -> "test.py"
      [] path \in {"test.py", "test.pyc", "test.js"} -> path

PathSuffix(path) ==
    CASE path \in {"a.py", "pkg/b.py"} -> ".py"
      [] path \in {"pkg/c.js", "pkg/x.min.js"} -> ".js"
      [] path = "pkg/notes.txt" -> ".txt"

DirEntries(directory) ==
    IF directory = "pkg"
    THEN {"pkg/b.py", "pkg/c.js", "pkg/notes.txt", "pkg/x.min.js"}
    ELSE {}

\* The order in which a directory lists its entries is the file system's:
\* every order is possible.
Orderings(S) ==
    {s \in [1..Cardinality(S) -> S] : \A i, j \in 1..Cardinality(S) : i # j => s[i] # s[j]}

ListingOrders ==
    {order \in [Dirs -> UNION {Orderings(DirEntries(d)) : d \in Dirs}] :
        \A d \in Dirs : order[d] \in Orderings(DirEntries(d))}

\* directory.rglob('*')
RGlob(directory, order) == order[directory]

\* the text of the files on disk
DiskContent ==
    [path \in Files |->
        CASE path = "a.py" -> <<"secret_assign", "eval_call", "process_fn", "magic_number">>
          [] path = "pkg/b.py" -> <<"ai_comment", "list_concat", "broken_def">>
          [] path = "pkg/c.js" -> <<"inner_html", "inner_html_add">>
          [] path = "pkg/notes.txt" -> <<"password">>
          [] path = "pkg/x.min.js" -> <<"inner_html">>]

\* the characters of the paths, names and patterns of the model
Chars(s) ==
    CASE s = "a.py" -> <<"a", ".", "p", "y">>
      [] s = "pkg/b.py" -> <<"p", "k", "g", "/", "b", ".", "p", "y">>
      [] s = "b.py" -> <<"b", ".", "p", "y">>
      [] s = "pkg/c.js" -> <<"p", "k", "g", "/", "c", ".", "j", "s">>
      [] s = "c.js" -> <<"c", ".", "j", "s">>
      [] s = "pkg/notes.txt" -> <<"p", "k", "g", "/", "n", "o", "t", "e", "s", ".", "t", "x", "t">>
      [] s = "notes.txt" -> <<"n", "o", "t", "e", "s", ".", "t", "x", "t">>
      [] s = "pkg/x.min.js" -> <<"p", "k", "g", "/", "x", ".", "m", "i", "n", ".", "j", "s">>
      [] s = "x.min.js" -> <<"x", ".", "m", "i", "n", ".", "j", "s">>
      [] s = "test.py" -> <<"t", "e", "s", "t", ".", "p", "y">>
      [] s = "test.js" -> <<"t", "e", "s", "t", ".", "j", "s">>
      [] s = "test.pyc" -> <<"t", "e", "s", "t", ".", "p", "y", "c">>
      [] s = "__pycache__/test.py" -> <<"_", "_", "p", "y", "c", "a", "c", "h", "e", "_", "_", "/", "t", "e", "s", "t", ".", "p", "y">>
      [] s = "pkg/test.pyc" -> <<"p", "k", "g", "/", "t", "e", "s", "t", ".", "p", "y", "c">>
      [] s = "*.pyc" -> <<"*", ".", "p", "y", "c">>
      [] s = "__pycache__/" -> <<"_", "_", "p", "y", "c", "a", "c", "h", "e", "_", "_", "/">>
      [] s = ".git/" -> <<".", "g", "i", "t", "/">>
      [] s = "node_modules/" -> <<"n", "o", "d", "e", "_", "m", "o", "d", "u", "l", "e", "s", "/">>
      [] s = "venv/" -> <<"v", "e", "n", "v", "/">>
      [] s = ".env" -> <<".", "e", "n", "v">>
      [] s = "*.min.js" -> <<"*", ".", "m", "i", "n", ".", "j", "s">>
      [] s = "*.min.css" -> <<"*", ".", "m", "i", "n", ".", "c", "s", "s">>
      [] s = "*.js" -> <<"*", ".", "j", "s">>
      [] s = "pkg/*" -> <<"p", "k", "g", "/", "*">>
      [] s = "?.py" -> <<"?", ".", "p", "y">>

\* the regular expression fnmatch.translate builds, matched against the whole
\* text: '*' is any run of characters ('/' included), '?' any one character,
\* any other character of these patterns is itself
RECURSIVE GlobMatch(_, _)
GlobMatch(text, pattern) ==
    \E t \in {text}, p \in {pattern} :
        IF p = << >> THEN t = << >>
        ELSE IF Head(p) = "*"
             THEN \/ GlobMatch(t, Tail(p))
                  \/ t # << >> /\ GlobMatch(Tail(t), p)
             ELSE /\ t # << >>
                  /\ Head(p) = "?" \/ Head(p) = Head(t)
                  /\ GlobMatch(Tail(t), Tail(p))

\* fnmatch.fnmatch(text, pattern)
FnMatch(text, pattern) == GlobMatch(Chars(text), Chars(pattern))

\* ------------------------------------------------------------------------
\* analyzer.py: CodeAnalyzer
\* ------------------------------------------------------------------------

VARIABLES
    config,                 \* self.config
    security_scanner,       \* TRUE: an instance, FALSE: None
    performance_analyzer,
    maintainability_scorer,
    ai_detector,
    visit_str_dispatch,     \* the interpreter dispatches str constants to visit_Str
    file_content,           \* the text of each file: what read_text returns
    read_outcome,           \* <<file, TRUE>> if read_text returned for the file, else <<file, FALSE>>
    phase,                  \* where analyze_paths stands
    paths,                  \* arguments of analyze_paths
    exclude_patterns,
    min_severity,
    detect_ai_patterns_arg,
    files_to_analyze,
    file_idx,               \* position of the loop over files_to_analyze
    all_issues,
    ai_scores,
    results,                \* the AnalysisResults under construction
    returned                \* what each call of _analyze_file returned, in order

\* Path.is_file: the files are the paths that have a text
IsFile(path) == path \in DOMAIN file_content

vars == <<config, security_scanner, performance_analyzer, maintainability_scorer,
          ai_detector, visit_str_dispatch, file_content, read_outcome, phase, paths,
          exclude_patterns, min_severity,
          detect_ai_patterns_arg, files_to_analyze, file_idx, all_issues, ai_scores,
          results, returned>>

analyzer_vars == <<config, security_scanner, performance_analyzer, maintainability_scorer,
                   ai_detector, visit_str_dispatch, file_content>>

arg_vars == <<paths, exclude_patterns, min_severity, detect_ai_patterns_arg>>

\* dataclass AnalysisResults (execution_time is wall-clock time, not modelled)
AnalysisResults ==
    [files_scanned |-> 0, security_issues |-> 0, performance_issues |-> 0,
     maintainability_score |-> RInt(10), ai_generated_percentage |-> RInt(0),
     issues |-> << >>, file_scores |-> << >>]

\* the configurations the analyzer is constructed with: every combination of
\* the switches of the three rule sets that emit findings, the default
\* configuration with AI detection disabled, and the default configuration
\* with a confidence_threshold that is not a number
Configs ==
    {[DefaultConfig EXCEPT !.security.enabled = s, !.performance.enabled = p,
                           !.maintainability.enabled = m]
        : s \in BOOLEAN, p \in BOOLEAN, m \in BOOLEAN}
    \cup {[DefaultConfig EXCEPT !.ai_detection.enabled = FALSE]}
    \cup {[DefaultConfig EXCEPT !.ai_detection.confidence_threshold.number = FALSE]}

\* __init__ creating every rule set whatever the configuration says
AnalyzerInitAll(c) ==
    /\ config = c
    /\ security_scanner = TRUE
    /\ performance_analyzer = TRUE
    /\ maintainability_scorer = TRUE
    /\ ai_detector = TRUE

\* CodeAnalyzer.__init__
AnalyzerInit(c) ==
    /\ config = c
    /\ security_scanner = c.security.enabled
    /\ performance_analyzer = c.performance.enabled
    /\ maintainability_scorer = c.maintainability.enabled
    /\ ai_detector = c.ai_detection.enabled

IdleInit ==
    /\ phase = "Idle"
    /\ read_outcome = {}
    /\ paths = << >>
    /\ exclude_patterns = << >>
    /\ min_severity = "medium"
    /\ detect_ai_patterns_arg = TRUE
    /\ files_to_analyze = << >>
    /\ file_idx = 1
    /\ all_issues = << >>
    /\ ai_scores = << >>
    /\ results = AnalysisResults
    /\ returned = << >>

Init ==
    /\ \E c \in Configs : AnalyzerInit(c)
    /\ visit_str_dispatch = TRUE
    /\ file_content = DiskContent
    /\ IdleInit

\* CodeAnalyzer._should_analyze_file
_should_analyze_file(file_path, excludes) ==
    ~\E i \in DOMAIN excludes :
        FnMatch(file_path, excludes[i]) \/ FnMatch(PathName(file_path), excludes[i])

supported_extensions == {".py", ".js", ".ts", ".java", ".cpp", ".c", ".h", ".go", ".rs", ".php"}

\* CodeAnalyzer._collect_files_from_directory
_collect_files_from_directory(directory, excludes, order) ==
    LET entries == RGlob(directory, order)
    IN  SelectSeqBy(entries,
            {p \in Range(entries) : /\ IsFile(p)
                                    /\ PathSuffix(p) \in supported_extensions
                                    /\ _should_analyze_file(p, excludes)})

\* the loop `for path_str in paths` of analyze_paths
CollectFiles(path_list, excludes, order) ==
    Flatten([i \in DOMAIN path_list |->
        CASE IsFile(path_list[i]) ->
               IF _should_analyze_file(path_list[i], excludes) THEN <<path_list[i]>> ELSE << >>
          [] IsDir(path_list[i]) ->
               _collect_files_from_directory(path_list[i], excludes, order)
          [] OTHER -> << >>])

\* a handler that leaves the category of the finding unset
AnalysisFailureUncategorised(file_path) ==
    Issue("medium", "", "Failed to analyze file", file_path, 0, "")

\* a handler reporting the failure with severity high
AnalysisFailureHigh(file_path) ==
    Issue("high", "analysis", "Failed to analyze file", file_path, 0, "")

\* The `except Exception` handler of _analyze_file
AnalysisFailure(file_path) ==
    Issue("medium", "analysis", "Failed to analyze file", file_path, 0, "")

NoScores == << >>

\* what _analyze_file returns, given what the rule sets return for the file:
\* the findings in the order security, performance, maintainability, the
\* scores of the rule sets that exist, and the finding of the handler when
\* read_text or the AI detector raised
AnalyzeFileOutcome(file_path, readable, run_ai, security_issues, perf, maint, ai) ==
    LET issues3 ==
            security_issues
            \o (IF performance_analyzer THEN perf.issues ELSE << >>)
            \o (IF maintainability_scorer THEN maint.issues ELSE << >>)
        scores3 ==
            (IF performance_analyzer
             THEN [k \in {"performance_score"} |-> perf.performance_score] ELSE NoScores)
            @@
            (IF maintainability_scorer
             THEN [k \in {"maintainability_score"} |-> maint.maintainability_score] ELSE NoScores)
    IN  CASE ~readable ->
               [file_path |-> file_path, raised |-> "read_text",
                issues |-> <<AnalysisFailure(file_path)>>, scores |-> NoScores]
          [] readable /\ run_ai /\ ai.raised ->
               [file_path |-> file_path, raised |-> "detect_ai_patterns",
                issues |-> Append(issues3, AnalysisFailure(file_path)), scores |-> scores3]
          [] readable /\ run_ai /\ ~ai.raised ->
               [file_path |-> file_path, raised |-> "none",
                issues |-> issues3,
                scores |-> scores3 @@ [k \in {"ai_confidence", "ai_patterns"} |->
                                          IF k = "ai_confidence" THEN ai.ai_confidence
                                                                 ELSE ai.ai_patterns]]
          [] OTHER ->
               [file_path |-> file_path, raised |-> "none", issues |-> issues3, scores |-> scores3]

\* an analysis whose rule sets append to one list of findings kept from file
\* to file
AnalyzeFileSharedIssues(file_path, detect_ai, readable) ==
    LET own ==
          IF ~readable
          THEN [file_path |-> file_path, raised |-> "read_text",
                issues |-> <<AnalysisFailure(file_path)>>, scores |-> NoScores]
          ELSE AnalyzeFileOutcome(
                file_path, readable, detect_ai /\ ai_detector,
                IF security_scanner
                THEN scan_file(config, file_path, file_content[file_path], visit_str_dispatch)
                ELSE << >>,
                analyze_file(config, file_path, file_content[file_path]),
                score_file(config, file_path, file_content[file_path]),
                detect_ai_patterns(config, file_content[file_path]))
    IN  [own EXCEPT !.issues = all_issues \o @]

\* CodeAnalyzer._analyze_file
_analyze_file(file_path, detect_ai, readable) ==
    IF ~readable
    THEN [file_path |-> file_path, raised |-> "read_text",
          issues |-> <<AnalysisFailure(file_path)>>, scores |-> NoScores]
    ELSE AnalyzeFileOutcome(
        file_path, readable, detect_ai /\ ai_detector,
        IF security_scanner
        THEN scan_file(config, file_path, file_content[file_path], visit_str_dispatch)
        ELSE << >>,
        analyze_file(config, file_path, file_content[file_path]),
        score_file(config, file_path, file_content[file_path]),
        detect_ai_patterns(config, file_content[file_path]))

severity_levels(severity, default) ==
    CASE severity = "low" -> 0
      [] severity = "medium" -> 1
      [] severity = "high" -> 2
      [] severity = "critical" -> 3
      [] OTHER -> default

\* a filter keeping only what lies strictly above the minimum
FilterBySeverityAbove(issues, minimum) ==
    LET min_level == severity_levels(minimum, 1)
    IN  SelectSeqBy(issues, {i \in Range(issues) : severity_levels(i.severity, 0) > min_level})

\* a filter with the comparison the wrong way round
FilterBySeverityInverted(issues, minimum) ==
    LET min_level == severity_levels(minimum, 1)
    IN  SelectSeqBy(issues, {i \in Range(issues) : severity_levels(i.severity, 0) <= min_level})

\* a filter that also sorts what it keeps, most severe first
FilterBySeverityRanked(issues, minimum) ==
    LET min_level == severity_levels(minimum, 1)
        at(level) == SelectSeqBy(issues, {i \in Range(issues) :
                        /\ severity_levels(i.severity, 0) >= min_level
                        /\ severity_levels(i.severity, 0) = level})
    IN  at(3) \o at(2) \o at(1) \o at(0)

\* the list comprehension that filters all_issues by minimum severity
FilterBySeverity(issues, minimum) ==
    LET min_level == severity_levels(minimum, 1)
    IN  SelectSeqBy(issues, {i \in Range(issues) : severity_levels(i.severity, 0) >= min_level})

\* a count taken over all_issues, before the filter
CountCategoryUnfiltered(issues, cat) ==
    Cardinality({i \in DOMAIN all_issues : all_issues[i].category = cat})

\* len([i for i in filtered_issues if i.category == ...])
CountCategory(issues, cat) == Cardinality({i \in DOMAIN issues : issues[i].category = cat})

\* scores.get('maintainability_score', 10.0) for every value of file_scores
maintainability_scores(file_scores) ==
    {<<p, IF "maintainability_score" \in DOMAIN file_scores[p]
          THEN file_scores[p]["maintainability_score"] ELSE RInt(10)>> : p \in DOMAIN file_scores}

RECURSIVE RSumSet(_)
RSumSet(pairs) ==
    IF pairs = {} THEN RInt(0)
    ELSE LET x == CHOOSE x \in pairs : TRUE IN RAdd(x[2], RSumSet(pairs \ {x}))

\* sum(maintainability_scores) / len(maintainability_scores), else the default
MaintainabilityMean(file_scores, default) ==
    LET ms == maintainability_scores(file_scores)
    IN  IF ms # {} THEN RDivInt(RSumSet(ms), Cardinality(ms)) ELSE default

\* an average over every scanned file instead of the files with a confidence
AiPercentageOverScanned(scores, default) ==
    IF scores # << >>
    THEN RMul(RDivInt(RSum(scores), results.files_scanned), RInt(100))
    ELSE default

\* sum(ai_scores) / len(ai_scores) * 100, else the default
AiPercentage(scores, default) ==
    IF scores # << >> THEN RMul(RDivInt(RSum(scores), Len(scores)), RInt(100)) ELSE default

PathChoices == {"a.py", "pkg", "pkg/b.py", "missing"}
ExcludeChoices == {<< >>, <<"*.js">>}

RECURSIVE SeqsUpTo(_, _)
SeqsUpTo(S, n) ==
    IF n = 0 THEN {<< >>}
    ELSE LET shorter == SeqsUpTo(S, n - 1)
         IN  shorter \cup {Append(s, x) : s \in shorter, x \in S}

\* analyze_paths is called: lines 32-36
Start(path_list, excludes, minimum, detect_ai) ==
    /\ phase = "Idle"
    /\ paths' = path_list
    /\ exclude_patterns' = excludes \o config.exclude
    /\ min_severity' = minimum
    /\ detect_ai_patterns_arg' = detect_ai
    /\ phase' = "Discovering"
    /\ UNCHANGED <<analyzer_vars, read_outcome, files_to_analyze, file_idx, all_issues,
                   ai_scores, results, returned>>

\* analyze_paths, lines 38-53: collect the files, create the result
Discover ==
    /\ phase = "Discovering"
    /\ \E order \in ListingOrders :
          \E files \in {CollectFiles(paths, exclude_patterns, order)} :
              /\ files_to_analyze' = files
              /\ results' = [AnalysisResults EXCEPT !.files_scanned = Len(files)]
              /\ phase' = IF files = << >> THEN "Aggregating" ELSE "PerFileAnalyzing"
    /\ file_idx' = 1
    /\ all_issues' = << >>
    /\ ai_scores' = << >>
    /\ UNCHANGED <<analyzer_vars, arg_vars, read_outcome, returned>>

\* what read_text can do with a file: what it did the first time, if the
\* file was read before during the scan
ReadOutcomes(file_path) ==
    IF \E r \in BOOLEAN : <<file_path, r>> \in read_outcome
    THEN {r \in BOOLEAN : <<file_path, r>> \in read_outcome}
    ELSE BOOLEAN

ReadOutcome(file_path, readable) == read_outcome \cup {<<file_path, readable>>}

\* an iteration without a handler around read_text: the exception of a file
\* that cannot be read leaves analyze_paths
AnalyzeFileUncaught(readable) ==
    /\ phase = "PerFileAnalyzing"
    /\ read_outcome' = ReadOutcome(files_to_analyze[file_idx], readable)
    /\ \/ /\ ~readable
          /\ phase' = "Raised"
          /\ UNCHANGED <<all_issues, results, ai_scores, returned, file_idx>>
       \/ /\ readable
          /\ \E file_path \in {files_to_analyze[file_idx]} :
             \E ret \in {_analyze_file(file_path, detect_ai_patterns_arg, readable)} :
                /\ all_issues' = all_issues \o ret.issues
                /\ results' = [results EXCEPT !.file_scores =
                                 [p \in DOMAIN results.file_scores \cup {file_path} |->
                                     IF p = file_path THEN ret.scores
                                                      ELSE results.file_scores[p]]]
                /\ ai_scores' = IF "ai_confidence" \in DOMAIN ret.scores
                                THEN Append(ai_scores, ret.scores["ai_confidence"])
                                ELSE ai_scores
                /\ returned' = Append(returned, ret)
          /\ file_idx' = file_idx + 1
          /\ phase' = IF file_idx = Len(files_to_analyze)
                      THEN "Aggregating" ELSE "PerFileAnalyzing"
    /\ UNCHANGED <<analyzer_vars, arg_vars, files_to_analyze>>

\* one iteration of `for file_path in files_to_analyze`: lines 55-62
AnalyzeFile(readable) ==
    /\ phase = "PerFileAnalyzing"
    /\ \E file_path \in {files_to_analyze[file_idx]} :
       \E ret \in {_analyze_file(file_path, detect_ai_patterns_arg, readable)} :
           /\ read_outcome' = ReadOutcome(file_path, readable)
           /\ all_issues' = all_issues \o ret.issues
           /\ results' = [results EXCEPT !.file_scores =
                            [p \in DOMAIN results.file_scores \cup {file_path} |->
                                IF p = file_path THEN ret.scores ELSE results.file_scores[p]]]
           /\ ai_scores' = IF "ai_confidence" \in DOMAIN ret.scores
                           THEN Append(ai_scores, ret.scores["ai_confidence"])
                           ELSE ai_scores
           /\ returned' = Append(returned, ret)
    /\ file_idx' = file_idx + 1
    /\ phase' = IF file_idx = Len(files_to_analyze) THEN "Aggregating" ELSE "PerFileAnalyzing"
    /\ UNCHANGED <<analyzer_vars, arg_vars, files_to_analyze>>

\* analyze_paths, lines 64-90: filter, count, average, return
Aggregate ==
    /\ phase = "Aggregating"
    /\ LET issues == FilterBySeverity(all_issues, min_severity)
       IN  results' = [results EXCEPT
                !.issues = issues,
                !.security_issues = CountCategory(issues, "security"),
                !.performance_issues = CountCategory(issues, "performance"),
                !.maintainability_score = MaintainabilityMean(results.file_scores, @),
                !.ai_generated_percentage = AiPercentage(ai_scores, @)]
    /\ phase' = "Done"
    /\ UNCHANGED <<analyzer_vars, arg_vars, read_outcome, files_to_analyze, file_idx,
                   all_issues, ai_scores, returned>>

\* a caller starts a scan
Call ==
    /\ phase = "Idle"
    /\ \E path_list \in SeqsUpTo(PathChoices, MaxPaths), excludes \in ExcludeChoices,
          minimum \in Severities, detect_ai \in BOOLEAN :
            Start(path_list, excludes, minimum, detect_ai)

\* the next file is analyzed; its text can be read or not, and a file read
\* again during the scan is as it was the first time
AnalyzeNext ==
    /\ phase = "PerFileAnalyzing"
    /\ \E readable \in ReadOutcomes(files_to_analyze[file_idx]) : AnalyzeFile(readable)

Next ==
    \/ Call
    \/ Discover
    \/ AnalyzeNext
    \/ Aggregate

Spec == Init /\ [][Next]_vars

\* analyze_paths is one synchronous call: once entered, each of its steps
\* is taken.  Nothing obliges a caller to start a scan.
\* Whether a scan ends does not depend on the minimum severity or on the
\* caller's exclude patterns, which only Aggregate and Discover read: the
\* scans of this specification use the defaults of the command line for
\* both, with the default configuration and the one whose
\* confidence_threshold is not a number.
LiveConfigs ==
    {DefaultConfig, [DefaultConfig EXCEPT !.ai_detection.confidence_threshold.number = FALSE]}

LiveInit ==
    /\ \E c \in LiveConfigs : AnalyzerInit(c)
    /\ visit_str_dispatch = TRUE
    /\ file_content = DiskContent
    /\ IdleInit

LiveCall ==
    /\ phase = "Idle"
    /\ \E path_list \in SeqsUpTo(PathChoices, MaxPaths), detect_ai \in BOOLEAN :
            Start(path_list, << >>, "medium", detect_ai)

\* the loop body when the file system may change between two reads of a file
LiveAnalyzeNext ==
    \E readable \in BOOLEAN : AnalyzeFile(readable)

LiveNext ==
    \/ LiveCall
    \/ Discover
    \/ LiveAnalyzeNext
    \/ Aggregate

LiveSpec ==
    /\ LiveInit
    /\ [][LiveNext]_vars
    /\ WF_vars(Discover)
    /\ WF_vars(LiveAnalyzeNext)
    /\ WF_vars(Aggregate)

\* ------------------------------------------------------------------------
\* SecurityScanner.scan_file on its own: one file of any content, any
\* combination of the category switches, with and without the dispatch of
\* string constants to visit_Str
ScanPaths == {"test.py", "test.js"}
ScanVocabulary == {"secret_assign", "eval_call", "sql_concat", "os_system",
                   "pickle_import", "password", "inner_html", "broken_def",
                   "sk_test_key", "literal20", "literal21"}

ScanConfigs ==
    {[DefaultConfig EXCEPT !.security.check_sql_injection = q,
                           !.security.check_xss = x,
                           !.security.check_hardcoded_secrets = h,
                           !.security.check_unsafe_deserialization = d,
                           !.security.check_ai_vulnerabilities = v]
        : q \in BOOLEAN, x \in BOOLEAN, h \in BOOLEAN, d \in BOOLEAN, v \in BOOLEAN}

ScanInit ==
    /\ \E c \in ScanConfigs : AnalyzerInit(c)
    /\ visit_str_dispatch \in BOOLEAN
    /\ \E p \in ScanPaths, content \in SeqsUpTo(ScanVocabulary, MaxStmts) :
          /\ file_content = [f \in {p} |-> content]
          /\ paths = <<p>>
    /\ phase = "Idle"
    /\ read_outcome = {}
    /\ exclude_patterns = << >>
    /\ min_severity = "low"
    /\ detect_ai_patterns_arg = FALSE
    /\ files_to_analyze = << >>
    /\ file_idx = 1
    /\ all_issues = << >>
    /\ ai_scores = << >>
    /\ results = AnalysisResults
    /\ returned = << >>

\* issues = scanner.scan_file(file_path, content)
ScanFile ==
    /\ phase = "Idle"
    /\ all_issues' = scan_file(config, paths[1], file_content[paths[1]], visit_str_dispatch)
    /\ phase' = "Scanned"
    /\ UNCHANGED <<analyzer_vars, arg_vars, read_outcome, files_to_analyze, file_idx,
                   ai_scores, results, returned>>

ScanNext == ScanFile

ScanSpec == ScanInit /\ [][ScanNext]_vars

\* ------------------------------------------------------------------------
\* Properties of a scan.  They are stated over what each call of
\* _analyze_file returned and over the result, not over the operators that
\* analyze_paths uses to build the result.

\* the order of severities: low < medium < high < critical
SeverityRank(severity) ==
    CASE severity = "low" -> 0
      [] severity = "medium" -> 1
      [] severity = "high" -> 2
      [] severity = "critical" -> 3

\* the order in which _analyze_file runs the rule sets
CategoryRank(category) ==
    CASE category = "security" -> 0
      [] category = "performance" -> 1
      [] category = "maintainability" -> 2
      [] category = "analysis" -> 3

\* every finding the calls of _analyze_file returned, in the order of the calls
Collected == Flatten([k \in DOMAIN returned |-> returned[k].issues])

Occurrences(seq, x) == Cardinality({i \in DOMAIN seq : seq[i] = x})

AtLeast(issues, minimum) ==
    {f \in Range(issues) : SeverityRank(f.severity) >= SeverityRank(minimum)}

OfCategory(issues, category) ==
    SelectSeqBy(issues, {f \in Range(issues) : f.category = category})

\* the analysis k got as far as the AI detector, and the detector returned
AiRan(k) ==
    /\ detect_ai_patterns_arg
    /\ config.ai_detection.enabled
    /\ returned[k].raised = "none"

\* C1: a file whose analysis raises (its text cannot be read, or a rule set
\* raises part-way) yields exactly one finding for the failure, of severity
\* medium, category analysis and line 0, as the last finding of that file; a
\* file that does not raise yields none; and every file discovered is
\* analyzed, in order, whatever failed before it.
FailureIsOneFinding ==
    /\ \A k \in DOMAIN returned :
          LET r == returned[k]
              failures == {i \in DOMAIN r.issues : r.issues[i].category = "analysis"}
          IN  IF r.raised = "none"
              THEN failures = {}
              ELSE /\ failures = {Len(r.issues)}
                   /\ r.issues[Len(r.issues)].severity = "medium"
                   /\ r.issues[Len(r.issues)].line_number = 0
                   /\ r.issues[Len(r.issues)].file_path = r.file_path
                   /\ r.raised = "read_text" => Len(r.issues) = 1
    /\ phase = "PerFileAnalyzing" => Len(returned) = file_idx - 1
    /\ phase \in {"Aggregating", "Done"} =>
          /\ Len(returned) = Len(files_to_analyze)
          /\ \A k \in DOMAIN returned : returned[k].file_path = files_to_analyze[k]

\* a scan where one file could not be read, the AI detector raised on
\* another, and a file after both was analyzed without failure
FailureThenNextFile ==
    /\ phase = "Done"
    /\ \E i, j, k \in DOMAIN returned :
          /\ returned[i].raised = "read_text"
          /\ returned[j].raised = "detect_ai_patterns"
          /\ Len(returned[j].issues) > 1
          /\ i < k /\ j < k
          /\ returned[k].raised = "none"

\* one step of a scan in the order Idle, Discovering, PerFileAnalyzing (once
\* per file), Aggregating, Done
PhaseStep ==
    \/ phase = "Idle" /\ phase' = "Discovering"
    \/ /\ phase = "Discovering"
       /\ phase' = IF files_to_analyze' = << >> THEN "Aggregating" ELSE "PerFileAnalyzing"
    \/ /\ phase = "PerFileAnalyzing"
       /\ Len(returned') = Len(returned) + 1
       /\ phase' = IF Len(returned') = Len(files_to_analyze)
                   THEN "Aggregating" ELSE "PerFileAnalyzing"
    \/ phase = "Aggregating" /\ phase' = "Done"

\* C2: a scan that has started reaches Done; its steps go from Discovering
\* through one PerFileAnalyzing step per discovered file to Aggregating and
\* Done, never back, whichever files fail.
ScanReachesDone ==
    /\ [][PhaseStep]_vars
    /\ [](phase \in {"Aggregating", "Done"} => Len(returned) = Len(files_to_analyze))
    /\ (phase = "Discovering") ~> (phase = "Done")

\* a finished scan of several files, every one of which failed
EveryFileFailed ==
    /\ phase = "Done"
    /\ Len(returned) >= 2
    /\ \A k \in DOMAIN returned : returned[k].raised # "none"
    /\ results.files_scanned = Len(returned)

\* C3: the result holds exactly the collected findings whose severity is at
\* least the minimum: none below it, and each one at or above it as many
\* times as it was collected.
FilterIsExact ==
    phase = "Done" =>
        /\ \A f \in Range(results.issues) :
              SeverityRank(f.severity) >= SeverityRank(min_severity)
        /\ Range(results.issues) \subseteq Range(Collected)
        /\ \A f \in AtLeast(Collected, min_severity) :
              Occurrences(results.issues, f) = Occurrences(Collected, f)

\* a result that kept a finding at the minimum severity and one above it,
\* and dropped one below it
FilterKeptAndDropped ==
    /\ phase = "Done"
    /\ \E f, g, h \in Range(Collected) :
          /\ SeverityRank(f.severity) = SeverityRank(min_severity)
          /\ SeverityRank(g.severity) > SeverityRank(min_severity)
          /\ SeverityRank(h.severity) < SeverityRank(min_severity)
          /\ f \in Range(results.issues)
          /\ g \in Range(results.issues)
          /\ h \notin Range(results.issues)

\* C4: for the findings of one scan, a higher minimum severity returns no
\* more findings than a lower one, and returns only findings the lower one
\* returns.
FilterIsMonotonic ==
    phase = "Done" =>
        /\ results.issues = FilterBySeverity(Collected, min_severity)
        /\ \A s1, s2 \in Severities :
              SeverityRank(s1) <= SeverityRank(s2) =>
                 LET lax == FilterBySeverity(Collected, s1)
                     strict == FilterBySeverity(Collected, s2)
                 IN  /\ Len(strict) <= Len(lax)
                     /\ \A f \in Range(strict) :
                           Occurrences(strict, f) <= Occurrences(lax, f)

\* findings of which each of the four minimum severities returns fewer than
\* the one below it, and critical still returns some
FilterStrictlyShrinks ==
    /\ phase = "Done"
    /\ Len(FilterBySeverity(Collected, "critical")) > 0
    /\ Len(FilterBySeverity(Collected, "critical")) < Len(FilterBySeverity(Collected, "high"))
    /\ Len(FilterBySeverity(Collected, "high")) < Len(FilterBySeverity(Collected, "medium"))
    /\ Len(FilterBySeverity(Collected, "medium")) < Len(FilterBySeverity(Collected, "low"))

\* C5: security_issues and performance_issues count the findings of their
\* category among the findings of the result, that is after the filter.
CountsArePostFilter ==
    phase = "Done" =>
        /\ results.security_issues =
              Cardinality({i \in DOMAIN results.issues :
                              results.issues[i].category = "security"})
        /\ results.performance_issues =
              Cardinality({i \in DOMAIN results.issues :
                              results.issues[i].category = "performance"})

\* a result with findings of both categories and of a third, whose filter
\* removed performance findings
CountsDifferFromCollected ==
    /\ phase = "Done"
    /\ results.security_issues > 0
    /\ results.performance_issues > 0
    /\ results.performance_issues < Len(OfCategory(Collected, "performance"))
    /\ results.security_issues + results.performance_issues < Len(results.issues)

\* C6: the findings of the result are in the order of discovery of their
\* files and, within a file, security findings first, then performance,
\* then maintainability, each in the order its rule set emitted them; the
\* filter removes findings and moves none.
DiscoveryThenEmissionOrder ==
    phase = "Done" =>
        /\ \A k \in DOMAIN returned : returned[k].file_path = files_to_analyze[k]
        /\ \A k \in DOMAIN returned :
              LET r == returned[k]
                  content == file_content[r.file_path]
              IN  r.raised # "read_text" =>
                    /\ \A i, j \in DOMAIN r.issues :
                          i < j => CategoryRank(r.issues[i].category)
                                      <= CategoryRank(r.issues[j].category)
                    /\ config.security.enabled =>
                          OfCategory(r.issues, "security")
                             = scan_file(config, r.file_path, content, visit_str_dispatch)
                    /\ config.performance.enabled =>
                          OfCategory(r.issues, "performance")
                             = analyze_file(config, r.file_path, content).issues
                    /\ config.maintainability.enabled =>
                          OfCategory(r.issues, "maintainability")
                             = score_file(config, r.file_path, content).issues
        /\ results.issues = SelectSeqBy(Collected, AtLeast(Collected, min_severity))

\* a result with findings of two files, findings of two rule sets for one
\* file, a less severe finding before a more severe one, and a dropped
\* finding between two kept ones
OrderedAcrossFilesAndRuleSets ==
    /\ phase = "Done"
    /\ \E i, j \in DOMAIN results.issues :
          /\ i < j
          /\ results.issues[i].file_path # results.issues[j].file_path
    /\ \E i, j \in DOMAIN results.issues :
          /\ i < j
          /\ results.issues[i].file_path = results.issues[j].file_path
          /\ results.issues[i].category # results.issues[j].category
    /\ \E i, j \in DOMAIN results.issues :
          /\ i < j
          /\ SeverityRank(results.issues[i].severity) < SeverityRank(results.issues[j].severity)
    /\ \E i, j, k \in DOMAIN Collected :
          /\ i < j /\ j < k
          /\ Collected[i] \in Range(results.issues)
          /\ Collected[j] \notin Range(results.issues)
          /\ Collected[k] \in Range(results.issues)

\* the maintainability score of analysis k, 10.0 when the rule set did not run
ScoreOfAnalysis(k) ==
    IF "maintainability_score" \in DOMAIN returned[k].scores
    THEN returned[k].scores["maintainability_score"]
    ELSE RInt(10)

\* C7: maintainability_score is the mean of the maintainability scores of
\* all scanned files (the files_scanned analyses), a file without a score
\* counting as 10.0; it is 10.0 when no file was scanned.
MaintainabilityIsMeanOverScanned ==
    phase = "Done" =>
        results.maintainability_score =
            IF results.files_scanned = 0
            THEN RInt(10)
            ELSE RDivInt(RSum([k \in DOMAIN returned |-> ScoreOfAnalysis(k)]),
                         results.files_scanned)

\* the confidence the detector returns for the file of analysis k
ConfidenceOfAnalysis(k) ==
    detect_ai_patterns(config, file_content[returned[k].file_path]).ai_confidence

\* the analyses on which AI detection ran, in order
AiAnalyses == SelectSeqBy([k \in DOMAIN returned |-> k], {k \in DOMAIN returned : AiRan(k)})

\* C8: ai_generated_percentage is 100 times the mean of ai_confidence over
\* exactly the analyses on which AI detection ran to its end; it is 0.0
\* when there is none.
AiPercentageIsMeanOverRan ==
    phase = "Done" =>
        LET confidences == [n \in DOMAIN AiAnalyses |-> ConfidenceOfAnalysis(AiAnalyses[n])]
        IN  results.ai_generated_percentage =
               IF confidences = << >>
               THEN RInt(0)
               ELSE RMul(RInt(100), RDivInt(RSum(confidences), Len(confidences)))

\* a scan where the detector ran on two files with different confidences,
\* one of them not zero, and did not run on a third that could not be read
AiMeanLeavesOutFailedFile ==
    /\ phase = "Done"
    /\ \E i, j, k \in DOMAIN returned :
          /\ AiRan(i) /\ AiRan(j)
          /\ ConfidenceOfAnalysis(i) # ConfidenceOfAnalysis(j)
          /\ returned[k].raised = "read_text"
    /\ results.ai_generated_percentage # RInt(0)

\* the rule-set switch and the instance for each category of finding
RuleSetEnabled(category) ==
    CASE category = "security" -> config.security.enabled
      [] category = "performance" -> config.performance.enabled
      [] category = "maintainability" -> config.maintainability.enabled

RuleSetInstance(category) ==
    CASE category = "security" -> security_scanner
      [] category = "performance" -> performance_analyzer
      [] category = "maintainability" -> maintainability_scorer

\* C9: a rule set disabled in the configuration has no instance, and no
\* finding of its category is returned by any analysis or is in any result.
DisabledRuleSetIsSilent ==
    \A category \in {"security", "performance", "maintainability"} :
        ~RuleSetEnabled(category) =>
            /\ ~RuleSetInstance(category)
            /\ \A f \in Range(Collected) \cup Range(all_issues) \cup Range(results.issues) :
                  f.category # category
            /\ category = "security" => results.security_issues = 0
            /\ category = "performance" => results.performance_issues = 0

\* a finished scan with security disabled of a readable file that the
\* security rule set has findings for, with findings of another rule set
\* in the result
DisabledSecurityOnVulnerableFile ==
    /\ phase = "Done"
    /\ ~config.security.enabled
    /\ \E k \in DOMAIN returned :
          /\ returned[k].raised = "none"
          /\ scan_file(config, returned[k].file_path, file_content[returned[k].file_path],
                       visit_str_dispatch) # << >>
    /\ results.issues # << >>

\* the findings scan_file returns when every category is enabled
ScanWithAllEnabled ==
    scan_file(DefaultConfig, paths[1], file_content[paths[1]], visit_str_dispatch)

SqlInjectionRules == {"security.sql_injection"}
HardcodedSecretRules == {"security.secrets", "security.potential_secret"}

\* the switch of the category a rule belongs to; rules of no category are
\* always on
RuleSwitch(rule_id) ==
    CASE rule_id \in SqlInjectionRules -> config.security.check_sql_injection
      [] rule_id \in HardcodedSecretRules -> config.security.check_hardcoded_secrets
      [] rule_id = "security.xss" -> config.security.check_xss
      [] rule_id = "security.deserialization" -> config.security.check_unsafe_deserialization
      [] rule_id = "security.ai_specific" -> config.security.check_ai_vulnerabilities
      [] OTHER -> TRUE

\* C10: scan_file returns no SQL-injection finding when check_sql_injection
\* is disabled and no hardcoded-secret finding when check_hardcoded_secrets
\* is disabled, whatever the content, and still returns every finding of
\* the categories that are enabled.
DisabledCategoryEmitsNothing ==
    phase = "Scanned" =>
        /\ ~config.security.check_sql_injection =>
              \A f \in Range(all_issues) : f.rule_id \notin SqlInjectionRules
        /\ ~config.security.check_hardcoded_secrets =>
              \A f \in Range(all_issues) : f.rule_id \notin HardcodedSecretRules
        /\ \A f \in Range(ScanWithAllEnabled) :
              RuleSwitch(f.rule_id) => f \in Range(all_issues)

\* ------------------------------------------------------------------------
\* CodeAnalyzer._should_analyze_file called on its own, as the tests call it:
\* one path, one list of exclude patterns
\* ------------------------------------------------------------------------
MaxExcludes == 2

FilterPaths == {"test.py", "test.pyc", "__pycache__/test.py", "pkg/test.pyc",
                "pkg/b.py", "pkg/x.min.js"}
FilterPatterns == {"*.pyc", "__pycache__/", "*.min.js", "pkg/*", "?.py"}

\* the state of an analyzer on which analyze_paths has not been called
DirectCallInit ==
    /\ AnalyzerInit(DefaultConfig)
    /\ visit_str_dispatch = TRUE
    /\ phase = "Idle"
    /\ read_outcome = {}
    /\ min_severity = "low"
    /\ detect_ai_patterns_arg = FALSE
    /\ files_to_analyze = << >>
    /\ file_idx = 1
    /\ all_issues = << >>
    /\ ai_scores = << >>
    /\ results = AnalysisResults
    /\ returned = << >>

FilterInit ==
    /\ DirectCallInit
    /\ file_content = DiskContent
    /\ \E p \in FilterPaths, excludes \in SeqsUpTo(FilterPatterns, MaxExcludes) :
          /\ paths = <<p>>
          /\ exclude_patterns = excludes

\* analyzer._should_analyze_file(Path(p), excludes)
ShouldAnalyze ==
    /\ phase = "Idle"
    /\ returned' = <<_should_analyze_file(paths[1], exclude_patterns)>>
    /\ phase' = "Filtered"
    /\ UNCHANGED <<analyzer_vars, arg_vars, read_outcome, files_to_analyze, file_idx,
                   all_issues, ai_scores, results>>

FilterNext == ShouldAnalyze

FilterSpec == FilterInit /\ [][FilterNext]_vars

\* ------------------------------------------------------------------------
\* The rule sets called on one file of any content, directly (scan_file,
\* analyze_file, score_file, detect_ai_patterns) and through analyze_paths,
\* under configurations that differ in the limits and in the AI threshold
\* ------------------------------------------------------------------------
RulePaths == {"test.py", "test.js"}
RuleVocabulary == {"process_fn", "list_concat", "magic_number", "broken_def", "deep_expr",
                  "ai_comment", "typing_import", "eval_call", "password"}

\* confidence_threshold values: below every pattern weight, the default, and
\* above every pattern weight
RuleThresholds == {<<1, 10>>, <<7, 10>>, <<1, 1>>}

RuleConfigs ==
    {[DefaultConfig EXCEPT !.ai_detection.confidence_threshold.value = t] : t \in RuleThresholds}
    \cup {[DefaultConfig EXCEPT !.ai_detection.confidence_threshold.number = FALSE],
          [DefaultConfig EXCEPT !.performance.max_complexity = 0],
          [DefaultConfig EXCEPT !.maintainability.max_complexity = 0,
                                !.maintainability.max_function_length = -100]}

RuleSetInit ==
    /\ \E c \in RuleConfigs : AnalyzerInit(c)
    /\ visit_str_dispatch = TRUE
    /\ \E p \in RulePaths, content \in SeqsUpTo(RuleVocabulary, MaxStmts) :
          /\ file_content = [f \in {p} |-> content]
          /\ paths = <<p>>
    /\ phase = "Idle"
    /\ read_outcome = {}
    /\ exclude_patterns = << >>
    /\ min_severity = "low"
    /\ detect_ai_patterns_arg = TRUE
    /\ files_to_analyze = << >>
    /\ file_idx = 1
    /\ all_issues = << >>
    /\ ai_scores = << >>
    /\ results = AnalysisResults
    /\ returned = << >>

\* what a direct call of a rule set on the file returns
DirectCall(rule_set, result) ==
    /\ phase = "Idle"
    /\ returned' = <<[rule_set |-> rule_set, result |-> result]>>
    /\ phase' = "Returned"
    /\ UNCHANGED <<analyzer_vars, arg_vars, read_outcome, files_to_analyze, file_idx,
                   all_issues, ai_scores, results>>

CallScanFile ==
    DirectCall("security",
               [issues |-> scan_file(config, paths[1], file_content[paths[1]],
                                     visit_str_dispatch)])

CallAnalyzeFile ==
    DirectCall("performance", analyze_file(config, paths[1], file_content[paths[1]]))

CallScoreFile ==
    DirectCall("maintainability", score_file(config, paths[1], file_content[paths[1]]))

CallDetectAi ==
    DirectCall("ai", detect_ai_patterns(config, file_content[paths[1]]))

\* analyzer.analyze_paths([p])
CallAnalyzePaths ==
    Start(paths, << >>, "low", TRUE)

RuleSetNext ==
    \/ CallScanFile
    \/ CallAnalyzeFile
    \/ CallScoreFile
    \/ CallDetectAi
    \/ CallAnalyzePaths
    \/ Discover
    \/ AnalyzeNext
    \/ Aggregate

RuleSetSpec == RuleSetInit /\ [][RuleSetNext]_vars

\* ------------------------------------------------------------------------
\* C11
\* ------------------------------------------------------------------------

\* an exclude pattern applies to a file when it matches the path or the bare
\* file name as a glob, or when it is a directory pattern ("d/") and d is one
\* of the directories on the path
ExcludeApplies(file_path, pattern) ==
    LET t == Chars(file_path)
        p == Chars(pattern)
    IN  \/ FnMatch(file_path, pattern)
        \/ FnMatch(PathName(file_path), pattern)
        \/ /\ p # << >>
           /\ p[Len(p)] = "/"
           /\ \E i \in 1..Len(t) :
                 /\ i = 1 \/ t[i - 1] = "/"
                 /\ i + Len(p) - 1 <= Len(t)
                 /\ SubSeq(t, i, i + Len(p) - 1) = p

\* C11: _should_analyze_file returns false exactly when one of the exclude
\* patterns applies to the file, be it a file name glob ('test.pyc' with
\* '*.pyc') or a directory pattern ('__pycache__/test.py' with '__pycache__/'),
\* and true when none applies.
ExcludedFileIsNotAnalyzed ==
    phase = "Filtered" =>
        returned[1] = ~\E i \in DOMAIN exclude_patterns :
                            ExcludeApplies(paths[1], exclude_patterns[i])

\* ------------------------------------------------------------------------
\* C12
\* ------------------------------------------------------------------------

InScoreRange(x) == RLe(RInt(0), x) /\ RLe(x, RInt(10))

\* C12: whatever the content of the file and the configuration, the
\* performance score and the maintainability score a rule set returns for the
\* file, the ones _analyze_file records, and the maintainability_score of the
\* result all lie between 0 and 10.
ScoresWithinBounds ==
    /\ \A k \in DOMAIN returned :
          LET r == returned[k]
          IN  /\ phase = "Returned" /\ r.rule_set = "performance" =>
                    InScoreRange(r.result.performance_score)
              /\ phase = "Returned" /\ r.rule_set = "maintainability" =>
                    InScoreRange(r.result.maintainability_score)
              /\ phase # "Returned" =>
                    \A key \in DOMAIN r.scores \cap {"performance_score", "maintainability_score"} :
                        InScoreRange(r.scores[key])
    /\ InScoreRange(results.maintainability_score)

\* a scan of one file whose maintainability penalties exceed its structural
\* score, so that the score was floored at 0, and whose performance score lost
\* points
FlooredScoreAggregated ==
    /\ phase = "Done"
    /\ Len(returned) = 1
    /\ returned[1].raised = "none"
    /\ returned[1].scores["maintainability_score"] = RInt(0)
    /\ results.maintainability_score = RInt(0)
    /\ Len(OfCategory(returned[1].issues, "maintainability")) > 0
    /\ RLt(returned[1].scores["performance_score"], RInt(10))

\* ------------------------------------------------------------------------
\* C13, C14
\* ------------------------------------------------------------------------

\* every individual match of the five detectors on the content
AllAiMatches(content) ==
    LET lines == SplitLines(content)
    IN  _detect_comment_patterns(lines) \o _detect_code_patterns(lines)
        \o _detect_naming_patterns(lines) \o _detect_import_patterns(lines)
        \o _detect_string_patterns(lines)

WeightSum(matches) == RSum([i \in DOMAIN matches |-> matches[i].confidence])

\* the detector was called on the file and returned
AiReturned ==
    /\ phase = "Returned"
    /\ returned[1].rule_set = "ai"
    /\ ~returned[1].result.raised

\* C13: the overall confidence is 0 when nothing matched and otherwise
\* min(0.95, S / (n + 2)) for the n matches of weight sum S; it lies in
\* [0, 0.95] and so below 1.
ConfidenceIsDampedMean ==
    AiReturned =>
        LET matches == AllAiMatches(file_content[paths[1]])
            confidence == returned[1].result.ai_confidence
        IN  /\ matches = << >> => confidence = RInt(0)
            /\ matches # << >> =>
                  confidence = RMin(<<19, 20>>, RDivInt(WeightSum(matches), Len(matches) + 2))
            /\ RLe(RInt(0), confidence)
            /\ RLe(confidence, <<19, 20>>)
            /\ RLt(confidence, RInt(1))

\* the detector returned a positive confidence for a content with several
\* matches
SeveralMatchesDamped ==
    /\ AiReturned
    /\ Len(AllAiMatches(file_content[paths[1]])) >= 2
    /\ RLt(RInt(0), returned[1].result.ai_confidence)

\* C14: the patterns the detector returns are exactly the matches whose
\* weight is at least the configured threshold, in the order they were found,
\* while the overall confidence does not depend on the threshold: a detector
\* that differs only in its threshold returns the same confidence for the
\* same content.
ThresholdFiltersListOnly ==
    AiReturned =>
        LET content == file_content[paths[1]]
            matches == AllAiMatches(content)
            threshold == config.ai_detection.confidence_threshold
        IN  /\ returned[1].result.ai_patterns =
                  SelectSeqBy(matches, {p \in Range(matches) : RLe(threshold.value, p.confidence)})
            /\ \A t \in RuleThresholds :
                  LET other == detect_ai_patterns(
                                   [config EXCEPT !.ai_detection.confidence_threshold =
                                                      [number |-> TRUE, value |-> t]], content)
                  IN  /\ ~other.raised
                      /\ other.ai_confidence = returned[1].result.ai_confidence

\* the detector returned some of the matches and left out others
SomeMatchesBelowThreshold ==
    /\ AiReturned
    /\ returned[1].result.ai_patterns # << >>
    /\ Len(returned[1].result.ai_patterns) < Len(AllAiMatches(file_content[paths[1]]))

\* ------------------------------------------------------------------------
\* C15
\* ------------------------------------------------------------------------

\* 10 minus 3 per critical, 2 per high and 1 per medium finding, floored at 0
PatternBasedScore(issues) ==
    RMax(RInt(0), RInt(10 - 3 * CountSeverity(issues, "critical")
                          - 2 * CountSeverity(issues, "high")
                          - CountSeverity(issues, "medium")))

\* the score the visitor computes from average and maximum complexity (10
\* for a file that is not Python)
StructuralPerformanceScore(file_path, content) ==
    IF EndsWith(file_path, ".py")
    THEN PerformanceAnalyzePythonAst(file_path, content,
                                     config.performance.max_complexity).complexity_score
    ELSE RInt(10)

\* C15: the performance score of a file is the minimum of the pattern-based
\* score of its findings and of its structural score, each computed on its
\* own.
PerformanceScoreIsMinOfTwo ==
    phase = "Returned" /\ returned[1].rule_set = "performance" =>
        returned[1].result.performance_score =
            RMin(PatternBasedScore(returned[1].result.issues),
                 StructuralPerformanceScore(paths[1], file_content[paths[1]]))

\* ------------------------------------------------------------------------
\* C16
\* ------------------------------------------------------------------------

\* the structural score of the file: the one _analyze_python_structure
\* returns for a Python file, the default 10 otherwise
StructuralMaintainabilityScore(file_path, content) ==
    IF EndsWith(file_path, ".py")
    THEN _analyze_python_structure(file_path, content, config.maintainability).structural_score
    ELSE RInt(10)

\* 2 x critical + 1.5 x high + 1 x medium + 0.5 x low
WeightedPenalty(issues) ==
    RAdd(RAdd(RInt(2 * CountSeverity(issues, "critical")),
              Rat(3 * CountSeverity(issues, "high"), 2)),
         RAdd(RInt(CountSeverity(issues, "medium")),
              Rat(CountSeverity(issues, "low"), 2)))

MaintReturned ==
    /\ phase = "Returned"
    /\ returned[1].rule_set = "maintainability"

\* C16: the maintainability score of a file is
\* max(0, min(10, structural_score) - (2 critical + 1.5 high + 1 medium + 0.5 low))
\* with the counts taken over all the findings score_file returns for it.
MaintainabilityScoreFormula ==
    MaintReturned =>
        returned[1].result.maintainability_score =
            RMax(RInt(0),
                 RSub(RMin(RInt(10),
                           StructuralMaintainabilityScore(paths[1], file_content[paths[1]])),
                      WeightedPenalty(returned[1].result.issues)))

\* a file with a structural score below 10 and findings of two severities,
\* whose score is neither 0 nor 10
PenalisedBelowStructural ==
    /\ MaintReturned
    /\ RLt(StructuralMaintainabilityScore(paths[1], file_content[paths[1]]), RInt(10))
    /\ CountSeverity(returned[1].result.issues, "high") > 0
    /\ CountSeverity(returned[1].result.issues, "low") > 0
    /\ RLt(RInt(0), returned[1].result.maintainability_score)

\* ------------------------------------------------------------------------
\* C17
\* ------------------------------------------------------------------------

\* the findings of the result that follow the line-pattern findings
StructuralFindings(result, file_path, content) ==
    SubSeq(result.issues, Len(MaintainabilityAnalyzePatterns(file_path, content)) + 1,
           Len(result.issues))

\* C17: when the parse of a Python file raises a syntax error the
\* maintainability rule set returns the line-pattern findings of the file
\* followed by exactly one structural finding, of severity high and rule
\* maintainability.syntax_error, and scores the file from structural_score 5;
\* when the structural analysis fails otherwise it returns the line-pattern
\* findings followed by exactly one low finding and scores the file from
\* structural_score 10.
StructuralFailureFinding ==
    MaintReturned /\ EndsWith(paths[1], ".py") =>
        LET content == file_content[paths[1]]
            result == returned[1].result
            patterns == MaintainabilityAnalyzePatterns(paths[1], content)
            structural == StructuralFindings(result, paths[1], content)
            error == AstParse(content).error
        IN  /\ SubSeq(result.issues, 1, Len(patterns)) = patterns
            /\ error = "SyntaxError" =>
                  /\ Len(structural) = 1
                  /\ structural[1].severity = "high"
                  /\ structural[1].rule_id = "maintainability.syntax_error"
                  /\ result.maintainability_score =
                        RMax(RInt(0), RSub(RInt(5), WeightedPenalty(result.issues)))
            /\ error \notin {"none", "SyntaxError"} =>
                  /\ Len(structural) = 1
                  /\ structural[1].severity = "low"
                  /\ result.maintainability_score =
                        RMax(RInt(0), RSub(RInt(10), WeightedPenalty(result.issues)))

\* a Python file with a line-pattern finding and a syntax error
SyntaxErrorAfterPatternFinding ==
    /\ MaintReturned
    /\ EndsWith(paths[1], ".py")
    /\ AstParse(file_content[paths[1]]).error = "SyntaxError"
    /\ MaintainabilityAnalyzePatterns(paths[1], file_content[paths[1]]) # << >>
    /\ Len(returned[1].result.issues) >= 2

\* ------------------------------------------------------------------------
\* C18
\* ------------------------------------------------------------------------

\* the findings of the line patterns of the enabled categories
LinePatternFindings(file_path, content) ==
    Flatten([c \in DOMAIN all_patterns |->
        IF _is_category_enabled(config, all_patterns[c].category)
        THEN _scan_patterns(file_path, SplitLines(content), all_patterns[c].patterns,
                            all_patterns[c].category, all_patterns[c].default_severity)
        ELSE << >>])

\* C18: when the parse of a Python file fails, scan_file returns exactly the
\* line-pattern findings of the file: no structural finding, and no finding
\* that reports the failure.
ParseFailureIsSilent ==
    /\ phase = "Returned"
    /\ returned[1].rule_set = "security"
    /\ EndsWith(paths[1], ".py")
    /\ AstParse(file_content[paths[1]]).error # "none"
    => returned[1].result.issues = LinePatternFindings(paths[1], file_content[paths[1]])

\* ------------------------------------------------------------------------
\* C19
\* ------------------------------------------------------------------------

\* C19: an exception raised inside a rule set is caught inside that rule set:
\* the AI detector called on a file returns, and the orchestrator's handler
\* sees nothing but a failure to read the file, so an analysis of a readable
\* file carries no finding of category analysis.
RuleSetFailureStaysInside ==
    /\ phase = "Returned" /\ returned[1].rule_set = "ai" => ~returned[1].result.raised
    /\ phase # "Returned" =>
          \A k \in DOMAIN returned :
              returned[k].raised # "read_text" =>
                  /\ returned[k].raised = "none"
                  /\ OfCategory(returned[k].issues, "analysis") = << >>

\* ------------------------------------------------------------------------
\* analyze_paths called again on the same analyzer with the same arguments,
\* the files unchanged between the calls
\* ------------------------------------------------------------------------
MaxRescans == 1

\* what the caller knows when analyze_paths is entered again: the number of
\* calls made after the first, the result of the previous call and the
\* content of the exclude list of the first call
PreviousCall ==
    IF returned # << >> /\ "rescans" \in DOMAIN returned[1]
    THEN returned[1]
    ELSE [rescans |-> 0, results |-> AnalysisResults, reused |-> FALSE,
          excludes |-> SubSeq(exclude_patterns, 1,
                              Len(exclude_patterns) - Len(config.exclude))]

\* the caller's list after the previous call.  Line 35 replaces an empty (or
\* absent) list by a new one, and line 36 extends in place the list it holds:
\* a list that was not empty now ends with the patterns of the configuration
CallerList ==
    LET passed == SubSeq(exclude_patterns, 1, Len(exclude_patterns) - Len(config.exclude))
    IN  IF passed = << >> THEN << >> ELSE exclude_patterns

\* analyze_paths entered again, lines 32-53, with `issues_at_entry` as the
\* value all_issues starts from.  reuse: the caller passes the list object
\* of the previous call, otherwise a list of the same content as the first.
\* A directory that did not change lists its entries as it did before.
RescanFrom(reuse, issues_at_entry) ==
    /\ phase = "Done"
    /\ PreviousCall.rescans < MaxRescans
    /\ \E passed \in {IF reuse THEN CallerList ELSE PreviousCall.excludes} :
       \E order \in ListingOrders :
          /\ CollectFiles(paths, exclude_patterns, order) = files_to_analyze
          /\ exclude_patterns' = passed \o config.exclude
          /\ files_to_analyze' = CollectFiles(paths, passed \o config.exclude, order)
          /\ results' = [AnalysisResults EXCEPT !.files_scanned = Len(files_to_analyze')]
          /\ phase' = IF files_to_analyze' = << >> THEN "Aggregating" ELSE "PerFileAnalyzing"
    /\ returned' = <<[rescans |-> PreviousCall.rescans + 1, results |-> results,
                      reused |-> reuse, excludes |-> PreviousCall.excludes]>>
    /\ file_idx' = 1
    /\ all_issues' = issues_at_entry
    /\ ai_scores' = << >>
    /\ UNCHANGED <<analyzer_vars, paths, min_severity, detect_ai_patterns_arg, read_outcome>>

\* a second call that goes on with the findings of the previous one
RescanKeepsIssues(reuse) == RescanFrom(reuse, all_issues)

\* all_issues = [] at line 52
Rescan(reuse) == RescanFrom(reuse, << >>)

RescanCall == \E reuse \in BOOLEAN : Rescan(reuse)

\* the analyzers that are called twice: the default configuration, and the
\* one whose confidence_threshold is not a number, with which every file
\* analyzed for AI patterns ends in the handler of _analyze_file
RescanInit ==
    /\ \E c \in LiveConfigs : AnalyzerInit(c)
    /\ visit_str_dispatch = TRUE
    /\ file_content = DiskContent
    /\ IdleInit

RescanNext ==
    \/ Call
    \/ Discover
    \/ AnalyzeNext
    \/ Aggregate
    \/ RescanCall

RescanSpec == RescanInit /\ [][RescanNext]_vars

\* ------------------------------------------------------------------------
\* C20
\* ------------------------------------------------------------------------

\* C20: a second call of analyze_paths on the same analyzer, with the same
\* paths, the same exclude list (the same list object or an equal one), the
\* same minimum severity and unchanged files, returns a result equal to the
\* result of the call before it (execution_time apart).
RescanIsIdempotent ==
    phase = "Done" /\ PreviousCall.rescans > 0 => results = PreviousCall.results

\* the second call got the list object of the first, which by then holds
\* the patterns of the configuration; it ends with these patterns twice,
\* skipped a file as the first call did and reports findings
RescanWithReusedList ==
    /\ phase = "Done"
    /\ PreviousCall.rescans > 0
    /\ PreviousCall.reused
    /\ PreviousCall.excludes # << >>
    /\ Len(exclude_patterns) = Len(PreviousCall.excludes) + 2 * Len(config.exclude)
    /\ Len(config.exclude) > 0
    /\ results.files_scanned > 0
    /\ results.issues # << >>
    /\ \E k \in DOMAIN returned : "raised" \in DOMAIN returned[k] /\ returned[k].raised # "none"

\* ------------------------------------------------------------------------
\* C21
\* ------------------------------------------------------------------------

FindingsWithoutAi ==
    Flatten([k \in DOMAIN returned |->
        _analyze_file(returned[k].file_path, FALSE, returned[k].raised # "read_text").issues])

\* C22: running the AI detector adds no finding: the issues of the result
\* and the counts security_issues and performance_issues of a scan are those
\* the same files give without AI detection.
AiDetectionAddsNoFinding ==
    phase = "Done" =>
        LET kept == SelectSeqBy(FindingsWithoutAi, AtLeast(FindingsWithoutAi, min_severity))
        IN  /\ results.issues = kept
            /\ results.security_issues = Len(OfCategory(kept, "security"))
            /\ results.performance_issues = Len(OfCategory(kept, "performance"))

\* ------------------------------------------------------------------------
\* C23
\* ------------------------------------------------------------------------

\* C23: every finding, whichever rule set or handler made it, has a severity
\* among low, medium, high and critical and a category among security,
\* performance, maintainability and analysis.
FindingFieldsAreSet ==
    \A f \in Range(Collected) \cup Range(all_issues) \cup Range(results.issues) :
        /\ f.severity \in {"low", "medium", "high", "critical"}
        /\ f.category \in {"security", "performance", "maintainability", "analysis"}

\* a result with findings of the four categories and the four severities
FindingsOfEveryKind ==
    /\ phase = "Done"
    /\ {f.category : f \in Range(results.issues)}
          = {"security", "performance", "maintainability", "analysis"}
    /\ {f.severity : f \in Range(results.issues)} = {"low", "medium", "high", "critical"}

\* ------------------------------------------------------------------------
\* C24
\* ------------------------------------------------------------------------

\* the lines of the scanned file that hold the statement `name`
LinesOfStatement(name) ==
    {StmtOffset(file_content[paths[1]], i) + 1 :
        i \in {j \in DOMAIN file_content[paths[1]] : file_content[paths[1]][j] = name}}

\* C24: with the secrets category enabled, scan_file returns a finding of
\* category security and severity critical for a line that assigns to
\* api_key a quoted string of sixteen or more characters starting with
\* sk_test_.
SkTestKeyIsCritical ==
    phase = "Scanned" /\ config.security.check_hardcoded_secrets =>
        \A line \in LinesOfStatement("sk_test_key") :
            \E f \in Range(all_issues) :
                /\ f.line_number = line
                /\ f.category = "security"
                /\ f.severity = "critical"

\* ------------------------------------------------------------------------
\* C28
\* ------------------------------------------------------------------------

\* the string literals of a tree, as the traversal meets them
RECURSIVE StringLiterals(_)
StringLiterals(nodes) ==
    Flatten([i \in DOMAIN nodes |->
        (IF nodes[i].kind = "Str" THEN <<nodes[i]>> ELSE << >>)
        \o StringLiterals(nodes[i].children)])

\* C28: the structural traversal of a parsable Python file yields one
\* medium security.potential_secret finding per string literal of twenty or
\* more characters, all of them among A-Z a-z 0-9 + / =, at the line of the
\* literal, and none for any other literal (on an interpreter that hands
\* string constants to visit_Str).
LongTokenLiteralsFlagged ==
    /\ phase = "Scanned"
    /\ visit_str_dispatch
    /\ EndsWith(paths[1], ".py")
    /\ AstParse(file_content[paths[1]]).error = "none"
    => LET literals == StringLiterals(AstParse(file_content[paths[1]]).body)
           tokens == SelectSeqBy(literals,
                        {n \in Range(literals) : n.info.len >= 20 /\ n.info.charset})
           found == SelectSeqBy(all_issues,
                        {f \in Range(all_issues) : f.rule_id = "security.potential_secret"})
       IN  /\ Len(found) = Len(tokens)
           /\ \A i \in DOMAIN found :
                 /\ found[i].severity = "medium"
                 /\ found[i].line_number = tokens[i].lineno

\* ------------------------------------------------------------------------
\* The two structural visitors run on the tree of one Python file, as
\* _analyze_python_ast and _analyze_python_structure run them, under
\* configurations that differ in max_complexity
\* ------------------------------------------------------------------------
StructureVocabulary == {"process_fn", "bool_fn", "with_fn", "deep_for", "deep_while",
                        "magic_number", "literal21"}

StructureConfigs ==
    {[DefaultConfig EXCEPT !.performance.max_complexity = m,
                           !.maintainability.max_complexity = m] : m \in {0, 1, 2, 3, 10}}

StructureInit ==
    /\ \E c \in StructureConfigs : AnalyzerInit(c)
    /\ visit_str_dispatch = TRUE
    /\ \E content \in SeqsUpTo(StructureVocabulary, MaxStmts) :
          /\ file_content = [f \in {"test.py"} |-> content]
          /\ paths = <<"test.py">>
    /\ phase = "Idle"
    /\ read_outcome = {}
    /\ exclude_patterns = << >>
    /\ min_severity = "low"
    /\ detect_ai_patterns_arg = FALSE
    /\ files_to_analyze = << >>
    /\ file_idx = 1
    /\ all_issues = << >>
    /\ ai_scores = << >>
    /\ results = AnalysisResults
    /\ returned = << >>

\* visitor = ...ASTVisitor(...); visitor.visit(tree): the visitor after the
\* traversal is recorded
VisitTree(rule_set, visitor) ==
    /\ phase \in {"Idle", "Visited"}
    /\ \A k \in DOMAIN returned : returned[k].rule_set # rule_set
    /\ returned' = Append(returned, [rule_set |-> rule_set, visitor |-> visitor])
    /\ phase' = "Visited"
    /\ UNCHANGED <<analyzer_vars, arg_vars, read_outcome, files_to_analyze, file_idx,
                   all_issues, ai_scores, results>>

\* performance.py 105-107
VisitPerformance ==
    VisitTree("performance",
              PerformanceVisit(paths[1], config.performance.max_complexity,
                               AstParse(file_content[paths[1]]).body, PerformanceVisitorInit))

\* maintainability.py 124-130
VisitMaintainability ==
    VisitTree("maintainability",
              MaintainabilityVisit(paths[1], config.maintainability,
                                   AstParse(file_content[paths[1]]).body,
                                   MaintainabilityVisitorInit))

StructureNext ==
    \/ VisitPerformance
    \/ VisitMaintainability

StructureSpec == StructureInit /\ [][StructureNext]_vars

\* the visitors recorded so far of a rule set (none or one)
Visitors(rule_set) ==
    {returned[k].visitor : k \in {j \in DOMAIN returned : returned[j].rule_set = rule_set}}

\* ------------------------------------------------------------------------
\* C25
\* ------------------------------------------------------------------------

\* C25: the performance visitor and the maintainability visitor compute the
\* same complexity for every function of a file.
VisitorsAgreeOnComplexity ==
    \A p \in Visitors("performance"), m \in Visitors("maintainability") :
        p.function_complexities = m.function_complexities

\* ------------------------------------------------------------------------
\* C26
\* ------------------------------------------------------------------------

\* the functions of a tree in the order in which their visits end
RECURSIVE FunctionsVisited(_)
FunctionsVisited(nodes) ==
    Flatten([i \in DOMAIN nodes |->
        FunctionsVisited(nodes[i].children)
        \o (IF nodes[i].kind = "FunctionDef" THEN <<nodes[i]>> ELSE << >>)])

\* C26: the performance visitor emits one performance.complexity finding,
\* at the line of the function, for each function whose final complexity is
\* greater than max_complexity and none for the others; the finding is high
\* when the complexity is greater than 1.5 times max_complexity and medium
\* when it is at most that.
ComplexityFindingPerFunction ==
    \A p \in Visitors("performance") :
        LET limit == config.performance.max_complexity
            functions == FunctionsVisited(AstParse(file_content[paths[1]]).body)
            over == SelectSeqBy([k \in DOMAIN functions |-> k],
                        {k \in DOMAIN functions : p.function_complexities[k] > limit})
            found == SelectSeqBy(p.issues,
                        {f \in Range(p.issues) : f.rule_id = "performance.complexity"})
        IN  /\ Len(p.function_complexities) = Len(functions)
            /\ Len(found) = Len(over)
            /\ \A i \in DOMAIN found :
                  /\ found[i].line_number = functions[over[i]].lineno
                  /\ found[i].severity =
                        IF 2 * p.function_complexities[over[i]] > 3 * limit
                        THEN "high" ELSE "medium"

\* a file with a function under the threshold, one at exactly 1.5 times the
\* threshold (medium) or one above 1.5 times the threshold (high)
ComplexityAtAndAboveLimit ==
    \E p \in Visitors("performance") :
        /\ config.performance.max_complexity = 2
        /\ \E k \in DOMAIN p.function_complexities : p.function_complexities[k] = 3
        /\ \E k \in DOMAIN p.function_complexities : p.function_complexities[k] = 4
        /\ {f.severity : f \in {g \in Range(p.issues) : g.rule_id = "performance.complexity"}}
              = {"medium", "high"}

\* ------------------------------------------------------------------------
\* C27
\* ------------------------------------------------------------------------

\* the lines of the loops of a tree that are entered with at least
\* `minimum` loops open, the loop itself counted, in the order of the visit
RECURSIVE LoopsAtDepth(_, _, _)
LoopsAtDepth(nodes, depth, minimum) ==
    Flatten([i \in DOMAIN nodes |->
        IF nodes[i].kind \in {"For", "While"}
        THEN (IF depth + 1 >= minimum THEN <<nodes[i].lineno>> ELSE << >>)
             \o LoopsAtDepth(nodes[i].children, depth + 1, minimum)
        ELSE LoopsAtDepth(nodes[i].children, depth, minimum)])

\* C27: the performance visitor emits a medium performance.nested_loops
\* finding for every loop, for or while, entered at nesting depth 3 or more
\* and for no other loop, and the nesting counter is back to 0 when the
\* traversal ends.
NestedLoopsFlagged ==
    \A p \in Visitors("performance") :
        LET found == SelectSeqBy(p.issues,
                        {f \in Range(p.issues) : f.rule_id = "performance.nested_loops"})
        IN  /\ [i \in DOMAIN found |-> found[i].line_number]
                  = LoopsAtDepth(AstParse(file_content[paths[1]]).body, 0, 3)
            /\ \A i \in DOMAIN found : found[i].severity = "medium"
            /\ p.nested_loops = 0

\* ------------------------------------------------------------------------
\* C29
\* ------------------------------------------------------------------------

\* C29: when analyze_paths has returned, files_scanned is the number of
\* entries of file_scores and the number of per-file analyses merged into
\* the result, also when a file is reachable from more than one of the
\* given paths.
FilesScannedCountsScores ==
    phase = "Done" =>
        /\ results.files_scanned = Len(returned)
        /\ results.files_scanned = Cardinality(DOMAIN results.file_scores)

\* ------------------------------------------------------------------------
\* C30
\* ------------------------------------------------------------------------

\* the finding of a failed analysis is in the result
FailureReported(k) ==
    \E i \in DOMAIN results.issues :
        /\ results.issues[i].category = "analysis"
        /\ results.issues[i].file_path = returned[k].file_path

\* C30: the finding that reports a failed file analysis passes the minimum
\* severity filter like any other finding: it is in result.issues exactly
\* when the minimum severity is low or medium, and with minimum severity
\* high or critical a scan in which every file fails returns no finding
\* while files_scanned still counts the files.
FailureFindingIsFiltered ==
    phase = "Done" =>
        /\ \A k \in DOMAIN returned :
              returned[k].raised # "none" =>
                  (FailureReported(k) <=> min_severity \in {"low", "medium"})
        /\ (/\ min_severity \in {"high", "critical"}
            /\ returned # << >>
            /\ \A k \in DOMAIN returned : returned[k].raised # "none")
              => /\ results.issues = << >>
                 /\ results.files_scanned = Len(files_to_analyze)
                 /\ results.files_scanned > 0

=============================================================================
